---- MODULE Spec2Model ----
(***************************************************************************)
(* ROSE-HistoricMode (src/unnamed/part_001): the in-client plugin that     *)
(* mirrors the host's "historic mode" state onto the rewards element of    *)
(* the champion-select UI.                                                 *)
(*                                                                         *)
(* The browser is single threaded: every action below is one task of the   *)
(* event loop (a socket event, a timer callback, a DOM mutation with the   *)
(* MutationObserver microtask that follows it) run to completion.  The     *)
(* program's functions are operators over a record s that holds the        *)
(* module-level variables of the closure together with the environment     *)
(* (sockets, timers, DOM), so that nested calls compose as in the source.  *)
(***************************************************************************)
EXTENDS Integers, Sequences, FiniteSets, TLC

VARIABLES
  pc,                          \* position of init(): "start", "loading", "running"
  bridgeSocket,                \* let bridgeSocket (0 is null, else a socket id)
  bridgeReady,                 \* let bridgeReady
  bridgeQueue,                 \* let bridgeQueue
  historicModeActive,          \* let historicModeActive
  currentRewardsElement,       \* let currentRewardsElement (0 is null)
  historicFlagImageUrl,        \* let historicFlagImageUrl (NoUrl is null)
  pendingHistoricFlagRequest,  \* keys of the Map pendingHistoricFlagRequest
  isInChampSelect,             \* let isInChampSelect
  retryCount,                  \* updateHistoricFlag._retryCount (undefined reads as 0)
  sockets,                     \* readyState of every WebSocket object
  socketPort,                  \* the port in the URL of every WebSocket object (0: none)
  bridgeRetryTimers,           \* pending setTimeout(..., 3000) of scheduleBridgeRetry
  timers,                      \* pending setTimeout callbacks that call updateHistoricFlag
  elems,                       \* the rewards elements: attached, classList, style
  selectedItem,                \* the rewards element of the selected item, if attached
  popup,                       \* text of #historic-popup-layer (NoPopup: absent)
  hostReq,                     \* asset requests the host got on the live connection, unanswered
  sent,                        \* history: frames handed to socket.send in the last task
  syncOps,                     \* history: outcome of each updateHistoricFlag call of the last
                               \* task (and the operations the element and connect models run)
  reqCount,                    \* history: request-local-asset messages produced so far
  notFoundRun,                 \* history: not-found attempts since the counter was last reset
  lastPhaseInTarget,           \* history: the last phase-change frame named a target phase
  hsExpect,                    \* history: what the last historic-state frame asks for, while
                               \* the phase, the document and the resolved URL stay as they were
  beforeApply,                 \* history of the element operations: every element as the
                               \* last apply run on it found it
  BRIDGE_PORT,                 \* let BRIDGE_PORT
  localStorage,                \* localStorage["rose_bridge_port"] (NoItem: no such key)
  loadPc,                      \* position of loadBridgePort(): "start", "cached", "default",
                               \* "sweep", "legacy", "done"
  portPromises,                \* const portPromises: the probes of the /bridge-port sweep
  legacyPromises,              \* const legacyPromises: the probes of the /port sweep
  loadResult,                  \* what loadBridgePort() returned ("pending" before it returns)
  probeLog,                    \* history: the probes issued so far, in order
  replyLog,                    \* history: what the awaited probes (of the cached and of the
                               \* default port) settled with
  storageLog,                  \* history: the setItem and removeItem calls made so far
  labels,                      \* the label elements showSkinName has created, in order
  labelTimers                  \* the setTimeout(..., 125000) timers resetTimer has started

vars == <<pc, bridgeSocket, bridgeReady, bridgeQueue, historicModeActive,
          currentRewardsElement, historicFlagImageUrl, pendingHistoricFlagRequest,
          isInChampSelect, retryCount, sockets, socketPort, bridgeRetryTimers, timers,
          elems,
          selectedItem, popup, hostReq, sent, syncOps, reqCount, notFoundRun,
          lastPhaseInTarget, hsExpect, beforeApply, BRIDGE_PORT, localStorage,
          loadPc, portPromises, legacyPromises, loadResult, probeLog, replyLog,
          storageLog, labels, labelTimers>>

(***************************************************************************)
(* Bounds of the model.                                                    *)
(***************************************************************************)
\* tasks are explored while the outbound queue holds at most MaxQueue frames
MaxQueue == 6
\* timer and DOM tasks, which log while the bridge is down, are explored while
\* the outbound queue holds at most MaxOffline frames
MaxOffline == 4
\* pending updateHistoricFlag timers (all kinds together)
MaxTimers == 2
\* saturation of the request counter (two requests already refute "at most one")
MaxReq == 2

(***************************************************************************)
(* Program constants.                                                      *)
(***************************************************************************)
HISTORIC_FLAG_ASSET_PATH == "historic_flag.png"
MAX_RETRIES == 5
\* the initial value of BRIDGE_PORT and the port of the first discovery probe
DEFAULT_PORT == 50000
DISCOVERY_START_PORT == 50000
DISCOVERY_END_PORT == 50010
\* no value under BRIDGE_PORT_STORAGE_KEY: getItem returns null
NoItem == <<"<null>">>

HISTORIC_CLASS == "lu-historic-flag-active"
RANDOM_CLASS == "lu-random-flag-active"

\* WebSocket objects that can exist at once; a closed socket's id is reused
SocketIds == {1, 2}
\* rewards elements (.skin-selection-item-information.loyalty-reward-icon--rewards)
\* in document order
ElemIds == {1, 2}

\* URLs are sequences of string pieces so that String.includes can be computed
NoUrl == <<>>
UrlFlag == <<"http://localhost:50000/asset/", "historic_flag.png">>
UrlImg == <<"http://.../", "img.png">>
\* the URL the host resolves the asset to
Urls == {UrlFlag}

NoPopup == "<absent>"
SkinNames == {"Skin A"}

\* the 100 ms and 1000 ms timers share one callback, () => updateHistoricFlag();
\* the 500 ms retry timer has its own
TimerKinds == {"sync", "retry"}


(***************************************************************************)
(* An element: whether it is in the document, its classList and its inline *)
(* style (CSSStyleDeclaration: property -> value and priority).            *)
(***************************************************************************)
\* the properties the plugin touches, and one it never touches
StyleProps ==
  {"display", "visibility", "opacity", "background-image", "background-repeat",
   "background-size", "height", "width", "position", "right", "top",
   "pointer-events", "cursor", "-webkit-user-select", "list-style-type",
   "content", "color"}

Unset == [value |-> <<>>, priority |-> ""]
EmptyStyle == [p \in StyleProps |-> Unset]

\* a rewards element as the client UI creates it
FreshElement == [attached |-> FALSE, classList |-> {}, style |-> EmptyStyle]

\* CSSStyleDeclaration.setProperty parses the value for the property and
\* ignores the call when it does not parse: content: " " (line 549) is no
\* <content-list>, every other value the plugin sets is valid
CssValid(name, value) == ~(name = "content" /\ value = <<" ">>)

setProperty(style, name, value, priority) ==
  IF CssValid(name, value)
    THEN [style EXCEPT ![name] = [value |-> value, priority |-> priority]]
    ELSE style

removeProperty(style, name) == [style EXCEPT ![name] = Unset]

getPropertyValue(style, name) == style[name].value

\* String.prototype.includes on a value made of pieces
includes(value, piece) == \E i \in 1..Len(value) : value[i] = piece

\* the template literal `url("${historicFlagImageUrl}")`
CssUrl(url) == <<"url(\"">> \o url \o <<"\")">>

\* a faulty variant of applyHistoricFlag: the marker class is toggled, not added
applyHistoricFlag_toggle(element, url) ==
  [element EXCEPT
     !.classList = IF HISTORIC_CLASS \in @ THEN @ \ {HISTORIC_CLASS}
                   ELSE @ \cup {HISTORIC_CLASS},
     !.style = setProperty(setProperty(@, "display", <<"block">>, "important"),
                           "background-image", CssUrl(url), "important")]

\* updateHistoricFlag, lines 530-549: force the element visible, add the
\* marker class and set the presentation properties
applyHistoricFlag(element, url) ==
  LET s1 == setProperty(element.style, "display", <<"block">>, "important")
      s2 == setProperty(s1, "visibility", <<"visible">>, "important")
      s3 == setProperty(s2, "opacity", <<"1">>, "important")
      s4 == setProperty(s3, "background-image", CssUrl(url), "important")
      s5 == setProperty(s4, "background-repeat", <<"no-repeat">>, "important")
      s6 == setProperty(s5, "background-size", <<"contain">>, "important")
      s7 == setProperty(s6, "height", <<"32px">>, "important")
      s8 == setProperty(s7, "width", <<"32px">>, "important")
      s9 == setProperty(s8, "position", <<"absolute">>, "important")
      s10 == setProperty(s9, "right", <<"-14px">>, "important")
      s11 == setProperty(s10, "top", <<"-14px">>, "important")
      s12 == setProperty(s11, "pointer-events", <<"none">>, "important")
      s13 == setProperty(s12, "cursor", <<"default">>, "important")
      s14 == setProperty(s13, "-webkit-user-select", <<"none">>, "important")
      s15 == setProperty(s14, "list-style-type", <<"none">>, "important")
      s16 == setProperty(s15, "content", <<" ">>, "important")
  IN [element EXCEPT !.classList = @ \cup {HISTORIC_CLASS}, !.style = s16]

\* the properties hideFlagOnElement removes when no other flag is active
SharedProps ==
  <<"background-image", "background-repeat", "background-size", "height", "width",
    "position", "right", "top", "pointer-events", "cursor", "-webkit-user-select",
    "list-style-type", "content">>

RECURSIVE removeProperties(_, _)
removeProperties(style, names) ==
  IF names = <<>> THEN style
  ELSE removeProperties(removeProperty(style, Head(names)), Tail(names))

\* a faulty variant of hideFlagOnElement: the random-flag class is not consulted
hideFlagOnElement_alone(element) ==
  LET classes == element.classList \ {HISTORIC_CLASS}
      r == removeProperties(element.style,
             <<"background-image", "background-repeat", "background-size", "height",
               "width", "position", "right", "top", "pointer-events", "cursor",
               "-webkit-user-select", "list-style-type", "content">>)
      h1 == setProperty(r, "display", <<"none">>, "important")
      h2 == setProperty(h1, "visibility", <<"hidden">>, "important")
      h3 == setProperty(h2, "opacity", <<"0">>, "important")
  IN [element EXCEPT !.classList = classes, !.style = h3]

\* a faulty variant of hideFlagOnElement: width is not removed
hideFlagOnElement_width(element) ==
  LET classes == element.classList \ {HISTORIC_CLASS}
      hasRandomFlag == RANDOM_CLASS \in classes
      bgImage == getPropertyValue(element.style, "background-image")
      kept == <<"background-image", "background-repeat", "background-size", "height",
                "position", "right", "top", "pointer-events", "cursor",
                "-webkit-user-select", "list-style-type", "content">>
  IN IF ~hasRandomFlag
       THEN LET r == removeProperties(element.style, kept)
                h1 == setProperty(r, "display", <<"none">>, "important")
                h2 == setProperty(h1, "visibility", <<"hidden">>, "important")
                h3 == setProperty(h2, "opacity", <<"0">>, "important")
            IN [element EXCEPT !.classList = classes, !.style = h3]
       ELSE IF bgImage # <<>> /\ includes(bgImage, "historic_flag.png")
         THEN [element EXCEPT !.classList = classes,
                              !.style = removeProperty(element.style, "background-image")]
         ELSE [element EXCEPT !.classList = classes]

\* a faulty variant of hideFlagOnElement: the opacity is left as it is
hideFlagOnElement_opaque(element) ==
  LET classes == element.classList \ {HISTORIC_CLASS}
      hasRandomFlag == RANDOM_CLASS \in classes
      bgImage == getPropertyValue(element.style, "background-image")
  IN IF ~hasRandomFlag
       THEN LET r == removeProperties(element.style, SharedProps)
                h1 == setProperty(r, "display", <<"none">>, "important")
                h2 == setProperty(h1, "visibility", <<"hidden">>, "important")
            IN [element EXCEPT !.classList = classes, !.style = h2]
       ELSE IF bgImage # <<>> /\ includes(bgImage, "historic_flag.png")
         THEN [element EXCEPT !.classList = classes,
                              !.style = removeProperty(element.style, "background-image")]
         ELSE [element EXCEPT !.classList = classes]

\* hideFlagOnElement, lines 563-600 (the caller passes a non-null element)
hideFlagOnElement(element) ==
  LET classes == element.classList \ {HISTORIC_CLASS}
      hasRandomFlag == RANDOM_CLASS \in classes
      bgImage == getPropertyValue(element.style, "background-image")
  IN IF ~hasRandomFlag
       THEN LET r == removeProperties(element.style, SharedProps)
                h1 == setProperty(r, "display", <<"none">>, "important")
                h2 == setProperty(h1, "visibility", <<"hidden">>, "important")
                h3 == setProperty(h2, "opacity", <<"0">>, "important")
            IN [element EXCEPT !.classList = classes, !.style = h3]
       ELSE IF bgImage # <<>> /\ includes(bgImage, "historic_flag.png")
         THEN [element EXCEPT !.classList = classes,
                              !.style = removeProperty(element.style, "background-image")]
         ELSE [element EXCEPT !.classList = classes]


(***************************************************************************)
(* The state the handlers work on.  Cur is the state a task starts in:     *)
(* the per-task histories start empty, and domMutated collects the         *)
(* childList mutations of document.body the task makes, which the          *)
(* MutationObserver of init() is told about when the task ends.            *)
(***************************************************************************)
Cur ==
  [pc |-> pc, bridgeSocket |-> bridgeSocket, bridgeReady |-> bridgeReady,
   bridgeQueue |-> bridgeQueue, historicModeActive |-> historicModeActive,
   currentRewardsElement |-> currentRewardsElement,
   historicFlagImageUrl |-> historicFlagImageUrl,
   pendingHistoricFlagRequest |-> pendingHistoricFlagRequest,
   isInChampSelect |-> isInChampSelect, retryCount |-> retryCount,
   sockets |-> sockets, socketPort |-> socketPort, BRIDGE_PORT |-> BRIDGE_PORT,
   bridgeRetryTimers |-> bridgeRetryTimers, timers |-> timers,
   elems |-> elems, selectedItem |-> selectedItem, popup |-> popup,
   hostReq |-> hostReq, sent |-> <<>>, syncOps |-> <<>>, reqCount |-> reqCount,
   notFoundRun |-> notFoundRun, lastPhaseInTarget |-> lastPhaseInTarget,
   hsExpect |-> hsExpect, domMutated |-> FALSE]

Commit(s) ==
  /\ pc' = s.pc
  /\ bridgeSocket' = s.bridgeSocket
  /\ bridgeReady' = s.bridgeReady
  /\ bridgeQueue' = s.bridgeQueue
  /\ historicModeActive' = s.historicModeActive
  /\ currentRewardsElement' = s.currentRewardsElement
  /\ historicFlagImageUrl' = s.historicFlagImageUrl
  /\ pendingHistoricFlagRequest' = s.pendingHistoricFlagRequest
  /\ isInChampSelect' = s.isInChampSelect
  /\ retryCount' = s.retryCount
  /\ sockets' = s.sockets
  /\ socketPort' = s.socketPort
  /\ bridgeRetryTimers' = s.bridgeRetryTimers
  /\ timers' = s.timers
  /\ elems' = s.elems
  /\ selectedItem' = s.selectedItem
  /\ popup' = s.popup
  /\ hostReq' = s.hostReq
  /\ sent' = s.sent
  /\ syncOps' = s.syncOps
  /\ reqCount' = s.reqCount
  /\ notFoundRun' = s.notFoundRun
  /\ lastPhaseInTarget' = s.lastPhaseInTarget
  /\ hsExpect' = s.hsExpect
  /\ beforeApply' = beforeApply
  /\ UNCHANGED <<BRIDGE_PORT, localStorage, loadPc, portPromises, legacyPromises,
                 loadResult, probeLog, replyLog, storageLog, labels, labelTimers>>

Min(a, b) == IF a <= b THEN a ELSE b

(***************************************************************************)
(* Outbound frames.  Date.now() timestamps and the data objects of log     *)
(* records are not modelled: no code reads them.                           *)
(***************************************************************************)
LogRecord(level, message) ==
  [type |-> "chroma-log", level |-> level, message |-> message]

AssetRequest == [type |-> "request-local-asset", assetPath |-> HISTORIC_FLAG_ASSET_PATH]

\* the guard of lines 184, 243 and 457
BridgeOpen(s) ==
  s.bridgeReady /\ s.bridgeSocket # 0 /\ s.sockets[s.bridgeSocket] = "OPEN"

\* bridgeSocket.send(frame): the frame leaves on the open connection, and
\* the host receives an asset request that is transmitted
socketSend(s, frame) ==
  [s EXCEPT !.sent = Append(@, frame),
            !.hostReq = IF frame.type = "request-local-asset" THEN 1 ELSE @]

\* log, lines 174-193
log(s, level, message) ==
  IF BridgeOpen(s)
    THEN socketSend(s, LogRecord(level, message))
    ELSE [s EXCEPT !.bridgeQueue = Append(@, LogRecord(level, message))]

RECURSIVE sendEach(_, _)
sendEach(s, frames) ==
  IF frames = <<>> THEN s ELSE sendEach(socketSend(s, Head(frames)), Tail(frames))

Reverse(q) == [i \in 1..Len(q) |-> q[Len(q) + 1 - i]]

\* a faulty variant of flushBridgeQueue: the newest frame leaves first
flushBridgeQueue_lifo(s) ==
  IF Len(s.bridgeQueue) > 0 /\ BridgeOpen(s)
    THEN [sendEach(s, Reverse(s.bridgeQueue)) EXCEPT !.bridgeQueue = <<>>]
    ELSE s

\* flushBridgeQueue, lines 242-249
flushBridgeQueue(s) ==
  IF Len(s.bridgeQueue) > 0 /\ BridgeOpen(s)
    THEN [sendEach(s, s.bridgeQueue) EXCEPT !.bridgeQueue = <<>>]
    ELSE s

\* a faulty variant of scheduleBridgeRetry: no timer is started
scheduleBridgeRetry_drop(s) == s

\* scheduleBridgeRetry, lines 234-240: setTimeout(..., 3000)
scheduleBridgeRetry(s) == [s EXCEPT !.bridgeRetryTimers = @ + 1]

FreeSockets(s) == {i \in SocketIds : s.sockets[i] = "FREE"}

\* a faulty variant of setupBridgeSocket: an open connection is not kept
setupBridgeSocket_again(s) ==
  LET id == CHOOSE i \in FreeSockets(s) : \A j \in FreeSockets(s) : i <= j
  IN [s EXCEPT !.sockets[id] = "CONNECTING", !.socketPort[id] = s.BRIDGE_PORT,
               !.bridgeSocket = id]

\* setupBridgeSocket, lines 195-232: new WebSocket(BRIDGE_URL) starts
\* CONNECTING.  BRIDGE_URL is ws://localhost:<port>, which the constructor
\* accepts, so the catch branch is not taken
setupBridgeSocket(s) ==
  IF s.bridgeSocket # 0 /\ s.sockets[s.bridgeSocket] = "OPEN"
    THEN s
    ELSE LET id == CHOOSE i \in FreeSockets(s) : \A j \in FreeSockets(s) : i <= j
         IN [s EXCEPT !.sockets[id] = "CONNECTING", !.socketPort[id] = s.BRIDGE_PORT,
                      !.bridgeSocket = id]

\* a faulty variant of onopen: the ready flag is set before the log call, so
\* the record is sent directly while older frames wait in the queue
onopen_early(s) ==
  LET s1 == [s EXCEPT !.bridgeReady = TRUE]
      s2 == log(s1, "info", "WebSocket bridge connected")
  IN flushBridgeQueue(s2)

\* bridgeSocket.onopen, lines 203-207
onopen(s) ==
  LET s1 == log(s, "info", "WebSocket bridge connected")
      s2 == [s1 EXCEPT !.bridgeReady = TRUE]
  IN flushBridgeQueue(s2)

\* a faulty variant of onerror: the error handler reconnects on its own
onerror_reconnect(s) ==
  [log(s, "warn", "WebSocket bridge error")
     EXCEPT !.bridgeReady = FALSE, !.bridgeSocket = 0, !.bridgeRetryTimers = @ + 1]

\* bridgeSocket.onerror, lines 218-220
onerror(s) == log(s, "warn", "WebSocket bridge error")

\* a faulty variant of onclose: the close forgets the outstanding asset request
onclose_forget(s) ==
  LET s1 == log(s, "info", "WebSocket bridge closed, reconnecting...")
      s2 == [s1 EXCEPT !.bridgeReady = FALSE, !.bridgeSocket = 0,
                       !.pendingHistoricFlagRequest = {}]
  IN scheduleBridgeRetry(s2)

\* a faulty variant of onclose: losing the host switches historic mode off
onclose_inactive(s) ==
  LET s1 == log(s, "info", "WebSocket bridge closed, reconnecting...")
      s2 == [s1 EXCEPT !.bridgeReady = FALSE, !.bridgeSocket = 0,
                       !.historicModeActive = FALSE]
  IN scheduleBridgeRetry(s2)

\* bridgeSocket.onclose, lines 222-227
onclose(s) ==
  LET s1 == log(s, "info", "WebSocket bridge closed, reconnecting...")
      s2 == [s1 EXCEPT !.bridgeReady = FALSE, !.bridgeSocket = 0]
  IN scheduleBridgeRetry(s2)

\* a faulty variant of the retry callback: the timer is re-armed on every try
bridgeRetryCallback_rearm(s) ==
  IF ~s.bridgeReady THEN scheduleBridgeRetry(setupBridgeSocket(s)) ELSE s

\* the callback of scheduleBridgeRetry, lines 235-239
bridgeRetryCallback(s) == IF ~s.bridgeReady THEN setupBridgeSocket(s) ELSE s


(***************************************************************************)
(* The skin-name label (#historic-popup-layer).  While the label is in the *)
(* document its 125 s removal timer is pending (resetTimer).               *)
(***************************************************************************)
\* removeHistoricSkinName, lines 441-443
removeHistoricSkinName(s) ==
  IF s.popup # NoPopup THEN [s EXCEPT !.popup = NoPopup, !.domMutated = TRUE] ELSE s

\* showSkinName, lines 371-432: the text of an existing label is replaced,
\* else a label is appended to document.body
showSkinName(s, skinName) == [s EXCEPT !.popup = skinName, !.domMutated = TRUE]

\* a JSON member that is missing from the payload
Absent == "<undefined>"

\* handleHistoricSkinNameUpdate, lines 434-440
handleHistoricSkinNameUpdate(s, payload) ==
  IF payload.historicSkinName \notin {Absent, ""} /\ payload.historicSkinName # "None"
    THEN showSkinName(s, payload.historicSkinName)
    ELSE removeHistoricSkinName(s)

(***************************************************************************)
(* The view synchronizer.                                                  *)
(***************************************************************************)
Attached(s) == {e \in ElemIds : s.elems[e].attached}

FirstOf(S) == CHOOSE e \in S : \A f \in S : e <= f

\* findRewardsElement, lines 330-370.  Every rewards element carries both
\* classes of REWARDS_SELECTOR and sits in an item of the carousel, so the
\* carousel scan of lines 354-364 looks through the elements the direct
\* selector looked through
findRewardsElement(s) ==
  IF ~s.isInChampSelect THEN [s |-> s, element |-> 0]
  ELSE IF s.elems[s.selectedItem].attached
    THEN [s |-> log(s, "debug", "Found rewards element in selected skin item"),
          element |-> s.selectedItem]
  ELSE IF Attached(s) # {}
    THEN [s |-> log(s, "debug", "Found rewards element via direct selector"),
          element |-> FirstOf(Attached(s))]
  ELSE IF \E e \in Attached(s) : TRUE
    THEN [s |-> log(s, "debug", "Found rewards element in carousel item"),
          element |-> FirstOf(Attached(s))]
  ELSE [s |-> removeHistoricSkinName(log(s, "debug", "Rewards element not found anywhere")),
        element |-> 0]

\* a faulty variant of requestHistoricFlagImage: the pending marker is not consulted
requestHistoricFlagImage_again(s) ==
  IF s.historicFlagImageUrl = NoUrl
    THEN LET s1 == [s EXCEPT !.pendingHistoricFlagRequest = @ \cup {HISTORIC_FLAG_ASSET_PATH},
                             !.reqCount = Min(@ + 1, MaxReq)]
             s2 == log(s1, "debug", "Requesting historic flag image from Python")
         IN IF BridgeOpen(s2)
              THEN socketSend(s2, AssetRequest)
              ELSE [s2 EXCEPT !.bridgeQueue = Append(@, AssetRequest)]
    ELSE s

\* requestHistoricFlagImage, lines 444-463
requestHistoricFlagImage(s) ==
  IF s.historicFlagImageUrl = NoUrl
     /\ HISTORIC_FLAG_ASSET_PATH \notin s.pendingHistoricFlagRequest
    THEN LET s1 == [s EXCEPT !.pendingHistoricFlagRequest = @ \cup {HISTORIC_FLAG_ASSET_PATH},
                             !.reqCount = Min(@ + 1, MaxReq)]
             s2 == log(s1, "debug", "Requesting historic flag image from Python")
         IN IF BridgeOpen(s2)
              THEN socketSend(s2, AssetRequest)
              ELSE [s2 EXCEPT !.bridgeQueue = Append(@, AssetRequest)]
    ELSE s

Op(name, attempts) == [op |-> name, attempts |-> attempts]

\* a faulty variant of updateNotFound: the comparison is <= instead of <
updateNotFound_le(s) ==
  LET s1 == log(s, "debug", "Rewards element not found, will retry")
  IN IF s1.retryCount <= MAX_RETRIES
       THEN [s1 EXCEPT !.retryCount = @ + 1,
                       !.timers["retry"] = @ + 1,
                       !.notFoundRun = @ + 1,
                       !.syncOps = Append(@, Op("retry", s.notFoundRun + 1))]
       ELSE [log(s1, "warn", "Rewards element not found after 5 retries, giving up")
               EXCEPT !.retryCount = 0,
                      !.notFoundRun = 0,
                      !.syncOps = Append(@, Op("giveup", s.notFoundRun + 1))]

\* a faulty variant of updateNotFound: the counter is not tested
updateNotFound_count(s) ==
  LET s1 == log(s, "debug", "Rewards element not found, will retry")
  IN [s1 EXCEPT !.retryCount = @ + 1,
                !.timers["retry"] = @ + 1,
                !.notFoundRun = @ + 1,
                !.syncOps = Append(@, Op("retry", s.notFoundRun + 1))]

\* a faulty variant of updateNotFound: giving up resets the counter and a
\* timer is started all the same
updateNotFound_forever(s) ==
  LET s1 == log(s, "debug", "Rewards element not found, will retry")
  IN IF s1.retryCount < MAX_RETRIES
       THEN [s1 EXCEPT !.retryCount = @ + 1,
                       !.timers["retry"] = @ + 1,
                       !.notFoundRun = @ + 1,
                       !.syncOps = Append(@, Op("retry", s.notFoundRun + 1))]
       ELSE [log(s1, "warn", "Rewards element not found after 5 retries, giving up")
               EXCEPT !.retryCount = 0,
                      !.timers["retry"] = @ + 1,
                      !.notFoundRun = 0,
                      !.syncOps = Append(@, Op("giveup", s.notFoundRun + 1))]

\* updateHistoricFlag, lines 474-498: the element was not found
updateNotFound(s) ==
  LET s1 == log(s, "debug", "Rewards element not found, will retry")
  IN IF s1.retryCount < MAX_RETRIES
       THEN [s1 EXCEPT !.retryCount = @ + 1,
                       !.timers["retry"] = @ + 1,
                       !.notFoundRun = @ + 1,
                       !.syncOps = Append(@, Op("retry", s.notFoundRun + 1))]
       ELSE [log(s1, "warn", "Rewards element not found after 5 retries, giving up")
               EXCEPT !.retryCount = 0,
                      !.notFoundRun = 0,
                      !.syncOps = Append(@, Op("giveup", s.notFoundRun + 1))]

\* a faulty variant of updateFound: the element referenced before is left as it is
updateFound_keep(s, element) ==
  LET s1 == [s EXCEPT !.retryCount = 0, !.notFoundRun = 0]
      s3 == log([s1 EXCEPT !.currentRewardsElement = element],
                "debug", "Found rewards element")
  IN IF s3.historicModeActive
       THEN IF s3.historicFlagImageUrl = NoUrl
              THEN [requestHistoricFlagImage(s3) EXCEPT !.syncOps = Append(@, Op("defer", 0))]
              ELSE [log([s3 EXCEPT !.elems[element] =
                                     applyHistoricFlag(@, s3.historicFlagImageUrl)],
                        "info", "Historic flag shown on rewards element")
                      EXCEPT !.syncOps = Append(@, Op("apply", 0))]
       ELSE [log([s3 EXCEPT !.elems[element] = hideFlagOnElement(@)],
                 "info", "Historic flag hidden on rewards element")
               EXCEPT !.syncOps = Append(@, Op("clear", 0))]

\* updateHistoricFlag, lines 500-561: the element was found
updateFound(s, element) ==
  LET s1 == [s EXCEPT !.retryCount = 0, !.notFoundRun = 0]
      prev == s1.currentRewardsElement
      s2 == IF prev # 0 /\ prev # element
              THEN [log(s1, "debug", "Selected skin changed - hiding flag on previous element")
                      EXCEPT !.elems[prev] = hideFlagOnElement(@)]
              ELSE s1
      s3 == log([s2 EXCEPT !.currentRewardsElement = element],
                "debug", "Found rewards element")
  IN IF s3.historicModeActive
       THEN IF s3.historicFlagImageUrl = NoUrl
              THEN [requestHistoricFlagImage(s3) EXCEPT !.syncOps = Append(@, Op("defer", 0))]
              ELSE [log([s3 EXCEPT !.elems[element] =
                                     applyHistoricFlag(@, s3.historicFlagImageUrl)],
                        "info", "Historic flag shown on rewards element")
                      EXCEPT !.syncOps = Append(@, Op("apply", 0))]
       ELSE [log([s3 EXCEPT !.elems[element] = hideFlagOnElement(@)],
                 "info", "Historic flag hidden on rewards element")
               EXCEPT !.syncOps = Append(@, Op("clear", 0))]

\* a faulty variant of updateHistoricFlag: the phase is not tested first
updateHistoricFlag_blind(s) ==
  LET f == findRewardsElement([s EXCEPT !.isInChampSelect = TRUE])
      g == [f EXCEPT !.s.isInChampSelect = s.isInChampSelect]
  IN IF g.element = 0 THEN updateNotFound(g.s) ELSE updateFound(g.s, g.element)

\* updateHistoricFlag, lines 465-561
updateHistoricFlag(s) ==
  IF ~s.isInChampSelect
    THEN [s EXCEPT !.syncOps = Append(@, Op("skip", 0))]
    ELSE LET f == findRewardsElement(s)
         IN IF f.element = 0 THEN updateNotFound(f.s) ELSE updateFound(f.s, f.element)

\* setTimeout(() => { updateHistoricFlag(); }, 100) and (..., 1000)
setTimeout(s, kind) == [s EXCEPT !.timers[kind] = @ + 1]

TargetPhases == {"ChampSelect", "FINALIZATION"}

\* a faulty variant of handlePhaseChange: leaving the phase hides nothing
handlePhaseChange_keep(s, data) ==
  LET wasInChampSelect == s.isInChampSelect
      s1 == [s EXCEPT !.isInChampSelect = data.phase \in TargetPhases]
  IN IF s1.isInChampSelect /\ ~wasInChampSelect
       THEN LET s2 == log(s1, "debug", "Entered ChampSelect phase - enabling plugin")
            IN IF s2.historicModeActive THEN setTimeout(s2, "sync") ELSE s2
     ELSE IF ~s1.isInChampSelect /\ wasInChampSelect
       THEN [log(s1, "debug", "Left ChampSelect phase - disabling plugin")
               EXCEPT !.currentRewardsElement = 0, !.retryCount = 0, !.notFoundRun = 0]
     ELSE s1

\* a faulty variant of handlePhaseChange: entering the phase starts no timer
handlePhaseChange_idle(s, data) ==
  LET wasInChampSelect == s.isInChampSelect
      s1 == [s EXCEPT !.isInChampSelect = data.phase \in TargetPhases]
  IN IF s1.isInChampSelect /\ ~wasInChampSelect
       THEN log(s1, "debug", "Entered ChampSelect phase - enabling plugin")
     ELSE IF ~s1.isInChampSelect /\ wasInChampSelect
       THEN LET s2 == log(s1, "debug", "Left ChampSelect phase - disabling plugin")
                cur == s2.currentRewardsElement
                s3 == IF cur # 0
                        THEN [s2 EXCEPT !.elems[cur] = hideFlagOnElement(@),
                                        !.currentRewardsElement = 0]
                        ELSE s2
            IN [s3 EXCEPT !.retryCount = 0, !.notFoundRun = 0]
     ELSE s1

\* a faulty variant of handlePhaseChange: every frame that names a target
\* phase is taken for an entry
handlePhaseChange_again(s, data) ==
  LET wasInChampSelect == s.isInChampSelect
      s1 == [s EXCEPT !.isInChampSelect = data.phase \in TargetPhases]
  IN IF s1.isInChampSelect
       THEN LET s2 == log(s1, "debug", "Entered ChampSelect phase - enabling plugin")
            IN IF s2.historicModeActive THEN setTimeout(s2, "sync") ELSE s2
     ELSE IF wasInChampSelect
       THEN LET s2 == log(s1, "debug", "Left ChampSelect phase - disabling plugin")
                cur == s2.currentRewardsElement
                s3 == IF cur # 0
                        THEN [s2 EXCEPT !.elems[cur] = hideFlagOnElement(@),
                                        !.currentRewardsElement = 0]
                        ELSE s2
            IN [s3 EXCEPT !.retryCount = 0, !.notFoundRun = 0]
     ELSE s1

\* handlePhaseChange, lines 261-286
handlePhaseChange(s, data) ==
  LET wasInChampSelect == s.isInChampSelect
      s1 == [s EXCEPT !.isInChampSelect = data.phase \in TargetPhases]
  IN IF s1.isInChampSelect /\ ~wasInChampSelect
       THEN LET s2 == log(s1, "debug", "Entered ChampSelect phase - enabling plugin")
            IN IF s2.historicModeActive THEN setTimeout(s2, "sync") ELSE s2
     ELSE IF ~s1.isInChampSelect /\ wasInChampSelect
       THEN LET s2 == log(s1, "debug", "Left ChampSelect phase - disabling plugin")
                cur == s2.currentRewardsElement
                s3 == IF cur # 0
                        THEN [s2 EXCEPT !.elems[cur] = hideFlagOnElement(@),
                                        !.currentRewardsElement = 0]
                        ELSE s2
            IN [s3 EXCEPT !.retryCount = 0, !.notFoundRun = 0]
     ELSE s1

\* a faulty variant of handleLocalAssetUrl: the URL is stored, the view is left alone
handleLocalAssetUrl_store(s, data) ==
  IF data.assetPath = HISTORIC_FLAG_ASSET_PATH /\ data.url # NoUrl
    THEN log([s EXCEPT !.historicFlagImageUrl = data.url,
                       !.pendingHistoricFlagRequest = @ \ {HISTORIC_FLAG_ASSET_PATH}],
             "info", "Received historic flag image URL from Python")
    ELSE s

\* a faulty variant of handleLocalAssetUrl: the asset path is not compared
handleLocalAssetUrl_any(s, data) ==
  IF data.url # NoUrl
    THEN LET s1 == [s EXCEPT !.historicFlagImageUrl = data.url,
                             !.pendingHistoricFlagRequest = @ \ {HISTORIC_FLAG_ASSET_PATH}]
             s2 == log(s1, "info", "Received historic flag image URL from Python")
         IN IF s2.isInChampSelect /\ s2.historicModeActive
              THEN updateHistoricFlag(s2)
              ELSE s2
    ELSE s

\* handleLocalAssetUrl, lines 288-302
handleLocalAssetUrl(s, data) ==
  IF data.assetPath = HISTORIC_FLAG_ASSET_PATH /\ data.url # NoUrl
    THEN LET s1 == [s EXCEPT !.historicFlagImageUrl = data.url,
                             !.pendingHistoricFlagRequest = @ \ {HISTORIC_FLAG_ASSET_PATH}]
             s2 == log(s1, "info", "Received historic flag image URL from Python")
         IN IF s2.isInChampSelect /\ s2.historicModeActive
              THEN updateHistoricFlag(s2)
              ELSE s2
    ELSE s

\* a faulty variant of handleHistoricStateUpdate: an inactive state schedules nothing
handleHistoricStateUpdate_lazy(s, data) ==
  LET s1 == handleHistoricSkinNameUpdate(s, data)
      s2 == [s1 EXCEPT !.historicModeActive = (data.active = "true")]
      s3 == log(s2, "info", "Received historic state update")
  IN IF s3.historicModeActive THEN setTimeout(setTimeout(s3, "sync"), "sync") ELSE s3

\* a faulty variant of handleHistoricStateUpdate: a frame that repeats the
\* active value schedules nothing
handleHistoricStateUpdate_changed(s, data) ==
  LET s1 == handleHistoricSkinNameUpdate(s, data)
      s2 == [s1 EXCEPT !.historicModeActive = (data.active = "true")]
      s3 == log(s2, "info", "Received historic state update")
      s4 == setTimeout(s3, "sync")
  IN IF s2.historicModeActive = s.historicModeActive THEN s3
     ELSE IF s4.historicModeActive THEN setTimeout(s4, "sync") ELSE s4

\* handleHistoricStateUpdate, lines 304-328.  JSON values are written as
\* their JSON text: data.active === true holds for the literal true alone
handleHistoricStateUpdate(s, data) ==
  LET s1 == handleHistoricSkinNameUpdate(s, data)
      s2 == [s1 EXCEPT !.historicModeActive = (data.active = "true")]
      s3 == log(s2, "info", "Received historic state update")
      s4 == setTimeout(s3, "sync")
  IN IF s4.historicModeActive THEN setTimeout(s4, "sync") ELSE s4

\* handleBridgeMessage, lines 251-259
handleBridgeMessage(s, payload) ==
  IF payload.type = "historic-state" THEN handleHistoricStateUpdate(s, payload)
  ELSE IF payload.type = "local-asset-url" THEN handleLocalAssetUrl(s, payload)
  ELSE IF payload.type = "phase-change" THEN handlePhaseChange(s, payload)
  ELSE s

\* a frame JSON.parse rejects
Malformed == [type |-> "<not JSON>"]

\* a faulty variant of onmessage: a frame that does not parse ends the connection
onmessage_drop(s, frame) ==
  IF frame = Malformed
    THEN scheduleBridgeRetry([log(s, "error", "Failed to parse bridge message")
                                EXCEPT !.bridgeReady = FALSE])
    ELSE handleBridgeMessage(s, frame)

\* bridgeSocket.onmessage, lines 209-216
onmessage(s, frame) ==
  IF frame = Malformed
    THEN log(s, "error", "Failed to parse bridge message")
    ELSE handleBridgeMessage(s, frame)

\* the callback of the retry timer, lines 486-492
retryCallback(s) ==
  IF s.isInChampSelect
    THEN updateHistoricFlag(s)
    ELSE [s EXCEPT !.retryCount = 0, !.notFoundRun = 0]

\* a faulty variant of the MutationObserver callback: the flags are not tested
observerCallback_always(s) == updateHistoricFlag(s)

\* the MutationObserver callback of init(), lines 620-625
observerCallback(s) ==
  IF s.isInChampSelect /\ s.historicModeActive THEN updateHistoricFlag(s) ELSE s

\* the microtask that follows a task: the observer (childList, subtree of
\* document.body) is called while the task or the observer itself has added
\* or removed nodes; it is installed when init() resumes
RECURSIVE deliverMutations(_)
deliverMutations(s) ==
  IF s.domMutated
    THEN IF s.pc = "running"
           THEN deliverMutations(observerCallback([s EXCEPT !.domMutated = FALSE]))
           ELSE [s EXCEPT !.domMutated = FALSE]
    ELSE s

\* init, lines 602-606: up to the await of loadBridgePort
initStart(s) == [log(s, "info", "Initializing LU-HistoricMode plugin") EXCEPT !.pc = "loading"]

\* init, lines 608-638: after the await of loadBridgePort
initResume(s) ==
  LET s1 == [s EXCEPT !.historicModeActive = FALSE]
      s2 == setupBridgeSocket(s1)
      s3 == requestHistoricFlagImage([s2 EXCEPT !.pc = "running"])
  IN log(s3, "info", "LU-HistoricMode plugin initialized")


(***************************************************************************)
(* Tasks.  A task runs its handler, then the MutationObserver microtask;   *)
(* it is explored while the result stays within the bounds of the model.   *)
(***************************************************************************)
PendingTimers(s) == s.timers["sync"] + s.timers["retry"]

Bounded(s, limit) == Len(s.bridgeQueue) <= limit /\ PendingTimers(s) <= MaxTimers

\* a node that is out of the document and that the plugin holds no reference
\* to is garbage: the client UI builds a new node when it shows the item again
collectGarbage(s) ==
  [s EXCEPT !.elems = [e \in ElemIds |->
                         IF ~s.elems[e].attached /\ s.currentRewardsElement # e
                           THEN FreshElement ELSE s.elems[e]]]

Run(s, limit) ==
  LET s2 == collectGarbage(deliverMutations(s))
  IN Bounded(s2, limit) /\ Commit(s2)

\* a task of the bridge (init, socket events, frames)
Task(s) == Run(s, MaxQueue)

\* a task of the view (timers, DOM mutations, the label)
ViewTask(s) == Run(s, MaxOffline)

\* what the host may put in a frame
JsonActive == {"true", "false", "\"true\""}
JsonSkinName == {Absent, "", "None"} \cup SkinNames
Phases == {"ChampSelect", "FINALIZATION", "Lobby", "None"}
AssetPaths == {HISTORIC_FLAG_ASSET_PATH, "other.png"}

HistoricStateFrames ==
  {[type |-> "historic-state", active |-> a, historicSkinName |-> n] :
     a \in JsonActive, n \in JsonSkinName}
PhaseChangeFrames == {[type |-> "phase-change", phase |-> p] : p \in Phases}
LocalAssetUrlFrames ==
  {[type |-> "local-asset-url", assetPath |-> a, url |-> u] :
     a \in AssetPaths, u \in Urls \cup {NoUrl}}
OtherFrames == {[type |-> "pong"], Malformed}

\* the module-level declarations, lines 151-155, and an idle environment
InitClosure ==
  /\ pc = "start"
  /\ bridgeSocket = 0
  /\ bridgeReady = FALSE
  /\ bridgeQueue = <<>>
  /\ historicModeActive = FALSE
  /\ currentRewardsElement = 0
  /\ pendingHistoricFlagRequest = {}
  /\ isInChampSelect = FALSE
  /\ retryCount = 0
  /\ sockets = [i \in SocketIds |-> "FREE"]
  /\ socketPort = [i \in SocketIds |-> 0]
  /\ bridgeRetryTimers = 0
  /\ timers = [k \in TimerKinds |-> 0]
  /\ selectedItem = 1
  /\ popup = NoPopup
  /\ hostReq = 0
  /\ sent = <<>>
  /\ syncOps = <<>>
  /\ reqCount = 0
  /\ notFoundRun = 0
  /\ lastPhaseInTarget = FALSE
  /\ hsExpect = "none"
  /\ beforeApply = [e \in ElemIds |-> FreshElement]
  /\ loadPc = "start"
  /\ portPromises = <<>>
  /\ legacyPromises = <<>>
  /\ loadResult = "pending"
  /\ probeLog = <<>>
  /\ replyLog = <<>>
  /\ storageLog = <<>>
  /\ labels = <<>>
  /\ labelTimers = <<>>

Init ==
  /\ InitClosure
  /\ BRIDGE_PORT = DEFAULT_PORT
  /\ localStorage = NoItem
  /\ historicFlagImageUrl = NoUrl
  /\ elems = [e \in ElemIds |-> FreshElement]

\* the script is loaded: init() runs up to its await
InitStart ==
  /\ pc = "start"
  /\ Task(initStart(Cur))

\* loadBridgePort has settled: init() resumes
InitResume ==
  /\ pc = "loading"
  /\ Task(initResume(Cur))

\* the connection is established: the open event
SocketOpen(id) ==
  /\ sockets[id] = "CONNECTING"
  /\ Task(onopen([Cur EXCEPT !.sockets[id] = "OPEN"]))

\* the closing handshake starts: readyState is CLOSING, no event yet
SocketClosing(id) ==
  /\ sockets[id] = "OPEN"
  /\ Task([Cur EXCEPT !.sockets[id] = "CLOSING"])

\* the connection is closed cleanly: the close event; the socket is gone
SocketClose(id) ==
  /\ sockets[id] \in {"OPEN", "CLOSING"}
  /\ Task([onclose([Cur EXCEPT !.sockets[id] = "CLOSED", !.hostReq = 0])
             EXCEPT !.sockets[id] = "FREE", !.socketPort[id] = 0])

\* the connection fails: the browser fires error, then close, in one task
SocketFail(id) ==
  /\ sockets[id] \in {"CONNECTING", "OPEN", "CLOSING"}
  /\ Task([onclose(onerror([Cur EXCEPT !.sockets[id] = "CLOSED", !.hostReq = 0]))
             EXCEPT !.sockets[id] = "FREE", !.socketPort[id] = 0])

\* the 3000 ms timer of scheduleBridgeRetry fires
BridgeRetryFire ==
  /\ bridgeRetryTimers > 0
  /\ FreeSockets(Cur) # {}
  /\ Task(bridgeRetryCallback([Cur EXCEPT !.bridgeRetryTimers = @ - 1]))

\* the element the ordered search resolves in the document as it is: the
\* one inside the selected item, else the first match in document order
TargetOf(s) ==
  IF s.elems[s.selectedItem].attached THEN s.selectedItem
  ELSE IF Attached(s) # {} THEN FirstOf(Attached(s))
  ELSE 0

\* the histories a frame updates, before its handler runs; a matching
\* local-asset-url frame is the host's answer to the request it got
Witnessed(s, frame) ==
  IF frame.type = "phase-change"
    THEN LET target == frame.phase = "ChampSelect" \/ frame.phase = "FINALIZATION"
         IN [s EXCEPT !.lastPhaseInTarget = target,
                      !.hsExpect = IF target THEN @ ELSE "none"]
  ELSE IF frame.type = "historic-state"
    THEN [s EXCEPT !.hsExpect =
            IF s.lastPhaseInTarget /\ s.historicFlagImageUrl # NoUrl /\ TargetOf(s) # 0
              THEN (IF frame.active = "true" THEN "shown" ELSE "hidden")
              ELSE "none"]
  ELSE IF frame.type = "local-asset-url" /\ frame.assetPath = "historic_flag.png"
          /\ frame.url # NoUrl
    THEN [s EXCEPT !.hostReq = 0]
  ELSE s

\* a frame arrives on an open socket
Receive(id, frame) ==
  /\ sockets[id] = "OPEN"
  /\ Task(onmessage(Witnessed(Cur, frame), frame))

RecvHistoricState == \E id \in SocketIds, f \in HistoricStateFrames : Receive(id, f)
RecvPhaseChange == \E id \in SocketIds, f \in PhaseChangeFrames : Receive(id, f)
RecvLocalAssetUrl == \E id \in SocketIds, f \in LocalAssetUrlFrames : Receive(id, f)
RecvOther == \E id \in SocketIds, f \in OtherFrames : Receive(id, f)

\* a timer that calls updateHistoricFlag fires
TimerFire(kind) ==
  /\ timers[kind] > 0
  /\ LET s == [Cur EXCEPT !.timers[kind] = @ - 1]
     IN ViewTask(IF kind = "retry" THEN retryCallback(s) ELSE updateHistoricFlag(s))

\* the client UI inserts the item of a rewards element
DomAttach(e) ==
  /\ ~elems[e].attached
  /\ ViewTask([Cur EXCEPT !.elems[e].attached = TRUE, !.domMutated = TRUE,
                       !.hsExpect = "none"])

\* the client UI removes the item of a rewards element
DomDetach(e) ==
  /\ elems[e].attached
  /\ ViewTask([Cur EXCEPT !.elems[e].attached = FALSE, !.domMutated = TRUE,
                       !.hsExpect = "none"])

\* the client UI moves the selection (a class change: not observed)
DomSelect(e) ==
  /\ selectedItem # e
  /\ ViewTask([Cur EXCEPT !.selectedItem = e, !.hsExpect = "none"])

\* the client UI adds or removes some other node under document.body
DomOther ==
  /\ ViewTask([Cur EXCEPT !.domMutated = TRUE])

\* the 125 s timer of the label fires: el.remove()
PopupExpire ==
  /\ popup # NoPopup
  /\ ViewTask(removeHistoricSkinName(Cur))

\* the user clicks the x of the label: popup.remove()
PopupDismiss ==
  /\ popup # NoPopup
  /\ ViewTask(removeHistoricSkinName(Cur))

Next ==
  \/ InitStart
  \/ InitResume
  \/ \E id \in SocketIds : SocketOpen(id)
  \/ \E id \in SocketIds : SocketClosing(id)
  \/ \E id \in SocketIds : SocketClose(id)
  \/ \E id \in SocketIds : SocketFail(id)
  \/ BridgeRetryFire
  \/ RecvHistoricState
  \/ RecvPhaseChange
  \/ RecvLocalAssetUrl
  \/ RecvOther
  \/ \E k \in TimerKinds : TimerFire(k)
  \/ \E e \in ElemIds : DomAttach(e)
  \/ \E e \in ElemIds : DomDetach(e)
  \/ \E e \in ElemIds : DomSelect(e)
  \/ DomOther
  \/ PopupExpire
  \/ PopupDismiss

Spec == Init /\ [][Next]_vars


(***************************************************************************)
(* The bridge with a document in which no rewards element ever appears:    *)
(* the socket events, the reconnect timer, the frames and the timers.      *)
(* setTimeout callbacks that are due run: weak fairness of the reconnect   *)
(* timer.                                                                  *)
(***************************************************************************)
NextBridge ==
  \/ InitStart
  \/ InitResume
  \/ \E id \in SocketIds : SocketOpen(id)
  \/ \E id \in SocketIds : SocketClosing(id)
  \/ \E id \in SocketIds : SocketClose(id)
  \/ \E id \in SocketIds : SocketFail(id)
  \/ BridgeRetryFire
  \/ RecvHistoricState
  \/ RecvPhaseChange
  \/ RecvLocalAssetUrl
  \/ RecvOther
  \/ \E k \in TimerKinds : TimerFire(k)

SpecBridge == Init /\ [][NextBridge]_vars /\ WF_vars(BridgeRetryFire)


(***************************************************************************)
(* setupBridgeSocket on its own: besides init() and the reconnect timer,   *)
(* which call it while no connection is open, it is called at any moment   *)
(* after init(), in every state of the connection.  The port is the one    *)
(* loadBridgePort has adopted by then.                                     *)
(***************************************************************************)
ResolvedPorts == {DEFAULT_PORT, DISCOVERY_START_PORT + 2}

\* every close starts a reconnect timer: calls of setupBridgeSocket are
\* explored while fewer than MaxRetryTimers reconnect timers are pending
MaxRetryTimers == 2

InitConnect ==
  /\ InitClosure
  /\ historicFlagImageUrl = NoUrl
  /\ elems = [e \in ElemIds |-> FreshElement]
  /\ localStorage = NoItem
  /\ BRIDGE_PORT \in ResolvedPorts

\* setupBridgeSocket() is called
Connect ==
  /\ pc = "running"
  /\ bridgeRetryTimers < MaxRetryTimers
  /\ (bridgeSocket # 0 /\ sockets[bridgeSocket] = "OPEN") \/ FreeSockets(Cur) # {}
  /\ Task([setupBridgeSocket(Cur) EXCEPT !.syncOps = <<Op("connect", 0)>>])

NextConnect ==
  \/ InitStart
  \/ InitResume
  \/ \E id \in SocketIds : SocketOpen(id)
  \/ \E id \in SocketIds : SocketClosing(id)
  \/ \E id \in SocketIds : SocketClose(id)
  \/ \E id \in SocketIds : SocketFail(id)
  \/ BridgeRetryFire
  \/ RecvOther
  \/ Connect

SpecConnect == InitConnect /\ [][NextConnect]_vars


(***************************************************************************)
(* The element operations on their own: apply (lines 530-549) and clear    *)
(* (hideFlagOnElement) run on elements in any state the client UI and the  *)
(* random-flag plugin may have left them in, with a fixed resolved URL.    *)
(* syncOps is the history of the operations run so far.                    *)
(***************************************************************************)
\* operations run on an element
MaxOps == 3

ElemUrls == {UrlFlag, UrlImg}

Decl(value, priority) == [value |-> value, priority |-> priority]

\* inline styles an element may have before the plugin touches it
ElemStyles ==
  {[EmptyStyle EXCEPT !["display"] = d, !["width"] = w, !["background-image"] = b,
                      !["content"] = c, !["color"] = k] :
     d \in {Unset, Decl(<<"inline">>, ""), Decl(<<"none">>, "important")},
     w \in {Unset, Decl(<<"10px">>, "")},
     b \in {Unset, Decl(<<"url(\"", "random_flag.png", "\")">>, "important"),
            Decl(CssUrl(UrlFlag), "important")},
     c \in {Unset, Decl(<<"\"x\"">>, "")},
     k \in {Unset, Decl(<<"red">>, "")}}

ElemStates ==
  {[attached |-> TRUE, classList |-> c, style |-> st] :
     c \in SUBSET {HISTORIC_CLASS, RANDOM_CLASS}, st \in ElemStyles}

InitElem ==
  /\ InitClosure
  /\ BRIDGE_PORT = DEFAULT_PORT
  /\ localStorage = NoItem
  /\ historicFlagImageUrl \in ElemUrls
  /\ elems \in {[e \in ElemIds |-> IF e = 1 THEN x ELSE FreshElement] : x \in ElemStates}

otherVars ==
  <<pc, bridgeSocket, bridgeReady, bridgeQueue, historicModeActive,
    historicFlagImageUrl, pendingHistoricFlagRequest, isInChampSelect, retryCount,
    sockets, socketPort, bridgeRetryTimers, timers, selectedItem, popup, hostReq, sent,
    reqCount,
    notFoundRun, lastPhaseInTarget, hsExpect, BRIDGE_PORT, localStorage, loadPc,
    portPromises, legacyPromises, loadResult, probeLog, replyLog, storageLog,
    labels, labelTimers>>

\* lines 530-549 on element e
ElemApply(e) ==
  /\ Len(syncOps) < MaxOps
  /\ elems' = [elems EXCEPT ![e] = applyHistoricFlag(@, historicFlagImageUrl)]
  /\ currentRewardsElement' = e
  /\ syncOps' = Append(syncOps, Op("apply", e))
  /\ beforeApply' = [beforeApply EXCEPT ![e] = elems[e]]
  /\ UNCHANGED otherVars

\* hideFlagOnElement(e)
ElemClear(e) ==
  /\ Len(syncOps) < MaxOps
  /\ elems' = [elems EXCEPT ![e] = hideFlagOnElement(@)]
  /\ currentRewardsElement' = e
  /\ syncOps' = Append(syncOps, Op("clear", e))
  /\ UNCHANGED <<beforeApply, otherVars>>

\* the random-flag plugin sets or clears its marker class on element e
RandomFlagToggle(e) ==
  /\ Len(syncOps) < MaxOps
  /\ elems' = [elems EXCEPT ![e].classList =
                 IF RANDOM_CLASS \in @ THEN @ \ {RANDOM_CLASS} ELSE @ \cup {RANDOM_CLASS}]
  /\ syncOps' = Append(syncOps, Op("random", e))
  /\ UNCHANGED <<currentRewardsElement, beforeApply, otherVars>>

NextElem ==
  \/ \E e \in ElemIds : ElemApply(e)
  \/ \E e \in ElemIds : ElemClear(e)
  \/ \E e \in ElemIds : RandomFlagToggle(e)

SpecElem == InitElem /\ [][NextElem]_vars


(***************************************************************************)
(* The view next to the random-flag plugin: the rewards elements may carry *)
(* the marker class of the second decoration (line 570), which its plugin  *)
(* sets and clears on its own schedule, and the host resolves the asset to *)
(* any URL, as in the scenario local-asset-url {assetPath:                 *)
(* "historic_flag.png", url: "http://.../img.png"}.                        *)
(***************************************************************************)
ResolvedUrlFrames ==
  {[type |-> "local-asset-url", assetPath |-> HISTORIC_FLAG_ASSET_PATH, url |-> u] :
     u \in ElemUrls}

RecvResolvedUrl == \E id \in SocketIds, f \in ResolvedUrlFrames : Receive(id, f)

\* the random-flag plugin sets or clears its marker class on a rewards element
\* of the document (a class change: not observed)
RandomFlag(e) ==
  /\ elems[e].attached
  /\ ViewTask([Cur EXCEPT !.elems[e].classList =
                         IF RANDOM_CLASS \in @ THEN @ \ {RANDOM_CLASS}
                                               ELSE @ \cup {RANDOM_CLASS},
                       !.hsExpect = "none"])

NextCoexist ==
  \/ InitStart
  \/ InitResume
  \/ \E id \in SocketIds : SocketOpen(id)
  \/ RecvHistoricState
  \/ RecvPhaseChange
  \/ RecvResolvedUrl
  \/ \E k \in TimerKinds : TimerFire(k)
  \/ \E e \in ElemIds : DomAttach(e)
  \/ \E e \in ElemIds : RandomFlag(e)

SpecCoexist == Init /\ [][NextCoexist]_vars


(***************************************************************************)
(* The view on a bridge that stays connected: frames, timers, the document *)
(* and the label, with up to MaxViewTimers timers pending, so that a       *)
(* historic-state frame can start its two timers while timers of earlier   *)
(* frames and retries are still pending, and with two skin names.          *)
(***************************************************************************)
\* pending updateHistoricFlag timers (all kinds together) in the view
MaxViewTimers == 4

ViewSkinNames == SkinNames \cup {"Skin B"}

ViewHistoricStateFrames ==
  {[type |-> "historic-state", active |-> a, historicSkinName |-> n] :
     a \in JsonActive, n \in {Absent, "", "None"} \cup ViewSkinNames}

\* a task of the view, explored while at most MaxViewTimers timers are pending
WideTask(s) ==
  LET s2 == collectGarbage(deliverMutations(s))
  IN /\ Len(s2.bridgeQueue) <= MaxQueue
     /\ PendingTimers(s2) <= MaxViewTimers
     /\ Commit(s2)

\* what a frame asks for, as the first entry of the history of its task: a
\* target phase, active true, a URL for the tracked asset
FrameOp(frame) ==
  IF frame.type = "phase-change"
    THEN Op("phase-change", IF frame.phase \in TargetPhases THEN 1 ELSE 0)
  ELSE IF frame.type = "historic-state"
    THEN Op("historic-state", IF frame.active = "true" THEN 1 ELSE 0)
  ELSE Op("local-asset-url",
          IF frame.assetPath = HISTORIC_FLAG_ASSET_PATH /\ frame.url # NoUrl
            THEN 1 ELSE 0)

\* a frame arrives on the open connection
ViewReceive(id, frame) ==
  /\ sockets[id] = "OPEN"
  /\ WideTask(onmessage([Witnessed(Cur, frame) EXCEPT !.syncOps = <<FrameOp(frame)>>],
                        frame))

ViewHistoricState == \E id \in SocketIds, f \in ViewHistoricStateFrames : ViewReceive(id, f)
ViewPhaseChange == \E id \in SocketIds, f \in PhaseChangeFrames : ViewReceive(id, f)
ViewLocalAssetUrl == \E id \in SocketIds, f \in LocalAssetUrlFrames : ViewReceive(id, f)

ViewTimerFire(kind) ==
  /\ timers[kind] > 0
  /\ LET s == [Cur EXCEPT !.timers[kind] = @ - 1]
     IN WideTask(IF kind = "retry" THEN retryCallback(s) ELSE updateHistoricFlag(s))

ViewDomAttach(e) ==
  /\ ~elems[e].attached
  /\ WideTask([Cur EXCEPT !.elems[e].attached = TRUE, !.domMutated = TRUE,
                        !.hsExpect = "none"])

ViewDomDetach(e) ==
  /\ elems[e].attached
  /\ WideTask([Cur EXCEPT !.elems[e].attached = FALSE, !.domMutated = TRUE,
                        !.hsExpect = "none"])

ViewDomSelect(e) ==
  /\ selectedItem # e
  /\ WideTask([Cur EXCEPT !.selectedItem = e, !.hsExpect = "none"])

ViewPopupExpire ==
  /\ popup # NoPopup
  /\ WideTask(removeHistoricSkinName(Cur))

ViewPopupDismiss ==
  /\ popup # NoPopup
  /\ WideTask(removeHistoricSkinName(Cur))

NextView ==
  \/ InitStart
  \/ InitResume
  \/ \E id \in SocketIds : SocketOpen(id)
  \/ ViewHistoricState
  \/ ViewPhaseChange
  \/ ViewLocalAssetUrl
  \/ \E k \in TimerKinds : ViewTimerFire(k)
  \/ \E e \in ElemIds : ViewDomAttach(e)
  \/ \E e \in ElemIds : ViewDomDetach(e)
  \/ \E e \in ElemIds : ViewDomSelect(e)
  \/ ViewPopupExpire
  \/ ViewPopupDismiss

SpecView == Init /\ [][NextView]_vars


(***************************************************************************)
(* The retry chains while the rewards element stays out of the document:   *)
(* frames start chains (the timers of a historic-state frame, the timer of *)
(* a phase entry, the direct call when the URL arrives, the observer when  *)
(* the label changes), and the timers fire in any order on the one shared  *)
(* retry counter.  The client UI inserts no element.  setTimeout callbacks *)
(* that are due run: weak fairness of both kinds of timer.                 *)
(***************************************************************************)
\* timers that may be pending when a further frame is explored; a timer task
\* may add one more (the observer runs when the task removes the label)
MaxChains == 3

\* a frame arrives while at most MaxChains timers are pending after it
ChainReceive(id, frame) ==
  /\ PendingTimers(Cur) < MaxChains
  /\ ViewReceive(id, frame)
  /\ timers'["sync"] + timers'["retry"] <= MaxChains

ChainHistoricState ==
  \E id \in SocketIds, f \in HistoricStateFrames : ChainReceive(id, f)
ChainPhaseChange == \E id \in SocketIds, f \in PhaseChangeFrames : ChainReceive(id, f)
ChainLocalAssetUrl == \E id \in SocketIds, f \in LocalAssetUrlFrames : ChainReceive(id, f)

NextRetry ==
  \/ InitStart
  \/ InitResume
  \/ \E id \in SocketIds : SocketOpen(id)
  \/ ChainHistoricState
  \/ ChainPhaseChange
  \/ ChainLocalAssetUrl
  \/ \E k \in TimerKinds : ViewTimerFire(k)

SpecRetry == Init /\ [][NextRetry]_vars


(***************************************************************************)
(* The label and its 125 s timers in detail (showSkinName and              *)
(* removeHistoricSkinName, lines 371-443).  Every label is an element of   *)
(* its own, created by showSkinName when none is in the document; every    *)
(* timer holds the element it was started for (the el of resetTimer) and   *)
(* stays pending when the element is removed, since only resetTimer calls  *)
(* clearTimeout.  The clock advances in ticks, ExpiryTicks of them to the  *)
(* 125 s period; a due timer fires at its tick or late.                     *)
(***************************************************************************)
\* label elements created
MaxLabels == 2

\* timers started by resetTimer
MaxLabelTimers == 3

\* ticks of the clock in the 125000 ms of resetTimer
ExpiryTicks == 2

\* a label as showSkinName appends it: _timer is the id of the timer started
\* last for it (0: undefined); age is history, the ticks since the last
\* showSkinName that showed it, counted up to ExpiryTicks
NewLabel(text) == [attached |-> TRUE, text |-> text, _timer |-> 0, age |-> 0]

\* a timer as setTimeout(() => el.remove(), 125000) starts it; over is
\* history, the label that was in the document when the timer fired
NewLabelTimer(el) == [el |-> el, left |-> ExpiryTicks, state |-> "pending", over |-> 0]

\* the state showSkinName and removeHistoricSkinName work on
CurLabel == [labels |-> labels, labelTimers |-> labelTimers]

\* document.getElementById(SHOW_SKIN_NAME_ID) (0 is null)
getElementById(d) ==
  IF \E e \in 1..Len(d.labels) : d.labels[e].attached
    THEN CHOOSE e \in 1..Len(d.labels) : d.labels[e].attached
    ELSE 0

\* clearTimeout(id): a timer that has fired or was cleared is left alone
clearTimeout(d, id) ==
  IF d.labelTimers[id].state = "pending"
    THEN [d EXCEPT !.labelTimers[id].state = "cleared"]
    ELSE d

\* a faulty variant of resetTimer: the timer started before is not cleared
resetTimer_keep(d, el) ==
  [d EXCEPT !.labelTimers = Append(@, NewLabelTimer(el)),
            !.labels[el]._timer = Len(d.labelTimers) + 1]

\* resetTimer, lines 427-430
resetTimer(d, el) ==
  LET d1 == IF d.labels[el]._timer # 0 THEN clearTimeout(d, d.labels[el]._timer) ELSE d
  IN [d1 EXCEPT !.labelTimers = Append(@, NewLabelTimer(el)),
                !.labels[el]._timer = Len(d.labelTimers) + 1]

\* showSkinName on the elements, lines 371-432
showSkinNameElement(d, skinName) ==
  LET el == getElementById(d)
  IN IF el # 0
       THEN resetTimer([d EXCEPT !.labels[el].text = skinName, !.labels[el].age = 0], el)
       ELSE resetTimer([d EXCEPT !.labels = Append(@, NewLabel(skinName))],
                       Len(d.labels) + 1)

\* el.remove(): nothing happens to an element that is out of the document
remove(d, el) == [d EXCEPT !.labels[el].attached = FALSE]

\* removeHistoricSkinName on the elements, lines 441-443
removeHistoricSkinNameElement(d) ==
  LET el == getElementById(d) IN IF el # 0 THEN remove(d, el) ELSE d

labelOther ==
  <<pc, bridgeSocket, bridgeReady, bridgeQueue, historicModeActive,
    currentRewardsElement, historicFlagImageUrl, pendingHistoricFlagRequest,
    isInChampSelect, retryCount, sockets, socketPort, bridgeRetryTimers, timers,
    elems, selectedItem, hostReq, sent, syncOps, reqCount, notFoundRun,
    lastPhaseInTarget, hsExpect, beforeApply, BRIDGE_PORT, localStorage, loadPc,
    portPromises, legacyPromises, loadResult, probeLog, replyLog, storageLog>>

\* the text of the label in the document is what the variable popup holds
CommitLabel(d) ==
  /\ labels' = d.labels
  /\ labelTimers' = d.labelTimers
  /\ popup' = IF getElementById(d) # 0 THEN d.labels[getElementById(d)].text ELSE NoPopup
  /\ UNCHANGED labelOther

\* handleHistoricSkinNameUpdate, lines 434-440, for the frame of a
\* historic-state message
LabelUpdate ==
  \E f \in ViewHistoricStateFrames :
    IF f.historicSkinName \notin {Absent, ""} /\ f.historicSkinName # "None"
      THEN /\ Len(labelTimers) < MaxLabelTimers
           /\ getElementById(CurLabel) # 0 \/ Len(labels) < MaxLabels
           /\ CommitLabel(showSkinNameElement(CurLabel, f.historicSkinName))
      ELSE /\ getElementById(CurLabel) # 0
           /\ CommitLabel(removeHistoricSkinNameElement(CurLabel))

\* the user clicks the x of a label: closeBtn.onclick, line 419
LabelDismiss(el) ==
  /\ labels[el].attached
  /\ CommitLabel(remove(CurLabel, el))

\* one tick of the clock passes
LabelTick ==
  /\ \/ \E id \in 1..Len(labelTimers) :
          labelTimers[id].state = "pending" /\ labelTimers[id].left > 0
     \/ \E e \in 1..Len(labels) : labels[e].attached /\ labels[e].age < ExpiryTicks
  /\ CommitLabel(
       [labels |-> [e \in 1..Len(labels) |->
                      IF labels[e].attached /\ labels[e].age < ExpiryTicks
                        THEN [labels[e] EXCEPT !.age = @ + 1] ELSE labels[e]],
        labelTimers |-> [id \in 1..Len(labelTimers) |->
                           IF labelTimers[id].state = "pending" /\ labelTimers[id].left > 0
                             THEN [labelTimers[id] EXCEPT !.left = @ - 1]
                             ELSE labelTimers[id]]])

\* a due timer fires: () => el.remove(), line 429
LabelTimerFire(id) ==
  /\ labelTimers[id].state = "pending"
  /\ labelTimers[id].left = 0
  /\ CommitLabel(remove([CurLabel EXCEPT !.labelTimers[id].state = "fired",
                                        !.labelTimers[id].over = getElementById(CurLabel)],
                        labelTimers[id].el))

NextLabel ==
  \/ LabelUpdate
  \/ \E el \in 1..Len(labels) : LabelDismiss(el)
  \/ LabelTick
  \/ \E id \in 1..Len(labelTimers) : LabelTimerFire(id)

SpecLabel == Init /\ [][NextLabel]_vars


(***************************************************************************)
(* The port resolver, loadBridgePort (lines 23-149), on its own: init()    *)
(* awaits it before anything else runs.  The function suspends at the      *)
(* probe of the cached port, at the probe of the default port and at the   *)
(* two Promise.allSettled; every probe settles with any outcome, the       *)
(* probes of a sweep in any order.  Strings are sequences of characters,   *)
(* so that parseInt, trim and String are computed.                         *)
(***************************************************************************)
\* candidate ports of a sweep that are modelled, from DISCOVERY_START_PORT + 1
\* on (the source sweeps up to DISCOVERY_END_PORT and treats the ports alike)
MaxSweep == 2

SweepCount == Min(MaxSweep, DISCOVERY_END_PORT - DISCOVERY_START_PORT)

Digits == <<"0", "1", "2", "3", "4", "5", "6", "7", "8", "9">>
IsDigit(c) == \E i \in 1..Len(Digits) : Digits[i] = c
DigitValue(c) == (CHOOSE i \in 1..Len(Digits) : Digits[i] = c) - 1
WhiteSpace == {" ", "\n", "\t"}

\* a Number is NaN or an integer
NaN == [nan |-> TRUE, n |-> 0]
Num(n) == [nan |-> FALSE, n |-> n]
isNaN(v) == v.nan

RECURSIVE trimStart(_)
trimStart(text) ==
  IF text # <<>> /\ Head(text) \in WhiteSpace THEN trimStart(Tail(text)) ELSE text

RECURSIVE trimEnd(_)
trimEnd(text) ==
  IF text # <<>> /\ text[Len(text)] \in WhiteSpace
    THEN trimEnd(SubSeq(text, 1, Len(text) - 1))
    ELSE text

\* String.prototype.trim
trim(text) == trimEnd(trimStart(text))

RECURSIVE digitPrefix(_)
digitPrefix(text) ==
  IF text # <<>> /\ IsDigit(Head(text))
    THEN <<Head(text)>> \o digitPrefix(Tail(text))
    ELSE <<>>

RECURSIVE decimal(_)
decimal(ds) ==
  IF ds = <<>> THEN 0
  ELSE 10 * decimal(SubSeq(ds, 1, Len(ds) - 1)) + DigitValue(ds[Len(ds)])

\* parseInt(text, 10): leading white space is skipped, a sign is read, the
\* longest prefix of digits is the value, and there is no value without a digit
parseInt(text) ==
  LET t == trimStart(text)
      signed == t # <<>> /\ Head(t) \in {"-", "+"}
      ds == digitPrefix(IF signed THEN Tail(t) ELSE t)
  IN IF ds = <<>> THEN NaN
     ELSE Num(IF signed /\ Head(t) = "-" THEN 0 - decimal(ds) ELSE decimal(ds))

\* String(n) of a non-negative integer
RECURSIVE StringOf(_)
StringOf(n) ==
  IF n < 10 THEN <<Digits[n + 1]>>
  ELSE StringOf(n \div 10) \o <<Digits[(n % 10) + 1]>>

\* what a probe settles with: fetch (or response.text) rejects, as on a
\* timeout or a network error, or there is a response
NetworkError == [error |-> TRUE, ok |-> FALSE, text |-> <<>>]
Response(ok, text) == [error |-> FALSE, ok |-> ok, text |-> text]

\* the outcomes of a probe of a port: a host there may name its own port or
\* another one, with or without white space around it
Outcomes(port) ==
  {NetworkError,
   Response(FALSE, StringOf(port)),
   Response(TRUE, <<"a", "b", "c">>),
   Response(TRUE, <<"0">>),
   Response(TRUE, StringOf(port)),
   Response(TRUE, <<" ">> \o StringOf(DISCOVERY_END_PORT) \o <<"\n">>)}

\* what may be stored under BRIDGE_PORT_STORAGE_KEY when the script starts
CacheTexts ==
  {NoItem, StringOf(DISCOVERY_START_PORT + 2), StringOf(DISCOVERY_START_PORT + 1),
   <<"a", "b", "c">>, <<"0">>}

\* the state loadBridgePort works on; thrown is an exception on its way up
CurLoad ==
  [BRIDGE_PORT |-> BRIDGE_PORT, localStorage |-> localStorage, loadPc |-> loadPc,
   portPromises |-> portPromises, legacyPromises |-> legacyPromises,
   loadResult |-> loadResult, probeLog |-> probeLog, replyLog |-> replyLog,
   storageLog |-> storageLog, thrown |-> FALSE]

loadOther ==
  <<pc, bridgeSocket, bridgeReady, bridgeQueue, historicModeActive,
    currentRewardsElement, historicFlagImageUrl, pendingHistoricFlagRequest,
    isInChampSelect, retryCount, sockets, socketPort, bridgeRetryTimers, timers,
    elems, selectedItem, popup, hostReq, sent, syncOps, reqCount, notFoundRun,
    lastPhaseInTarget, hsExpect, beforeApply, labels, labelTimers>>

\* an exception that leaves loadBridgePort rejects the promise init() awaits
CommitLoad(l) ==
  /\ BRIDGE_PORT' = l.BRIDGE_PORT
  /\ localStorage' = l.localStorage
  /\ loadPc' = IF l.thrown THEN "done" ELSE l.loadPc
  /\ portPromises' = l.portPromises
  /\ legacyPromises' = l.legacyPromises
  /\ loadResult' = IF l.thrown THEN "rejected" ELSE l.loadResult
  /\ probeLog' = l.probeLog
  /\ replyLog' = l.replyLog
  /\ storageLog' = l.storageLog
  /\ UNCHANGED loadOther

Throw(l) == [l EXCEPT !.thrown = TRUE]
Caught(l) == [l EXCEPT !.thrown = FALSE]

\* fetch(`http://localhost:${port}${path}`, ...)
fetch(l, port, path) ==
  [l EXCEPT !.probeLog = Append(@, [port |-> port, path |-> path])]

\* the awaited fetch settles with outcome o
settle(l, o) == [l EXCEPT !.replyLog = Append(@, [stage |-> l.loadPc, reply |-> o])]

\* BRIDGE_PORT = fetchedPort (BRIDGE_URL is derived from it)
adopt(l, port) == [l EXCEPT !.BRIDGE_PORT = port]

\* localStorage.setItem(BRIDGE_PORT_STORAGE_KEY, text)
setItem(l, text) ==
  [l EXCEPT !.localStorage = text,
            !.storageLog = Append(@, [op |-> "setItem", text |-> text])]

\* localStorage.removeItem(BRIDGE_PORT_STORAGE_KEY)
removeItem(l) ==
  [l EXCEPT !.localStorage = NoItem,
            !.storageLog = Append(@, [op |-> "removeItem", text |-> NoItem])]

return(l, value) == [l EXCEPT !.loadPc = "done", !.loadResult = value]

\* lines 53-56: the probe of the default port is issued
probeDefault(l) ==
  [fetch(l, DEFAULT_PORT, "/bridge-port") EXCEPT !.loadPc = "default"]

\* lines 24-34: the cached port is read and, if it is a positive number,
\* probed; otherwise discovery starts
loadBridgePort(l) ==
  LET cachedPort == l.localStorage
      port == parseInt(cachedPort)
  IN IF cachedPort # NoItem /\ cachedPort # <<>> /\ ~isNaN(port) /\ port.n > 0
       THEN [fetch(l, port.n, "/bridge-port") EXCEPT !.loadPc = "cached"]
       ELSE probeDefault(l)

\* lines 31-50: the probe of the cached port has settled
cachedSettled(l, o) ==
  LET fetchedPort == parseInt(trim(o.text))
      try == IF o.error THEN Throw(l)
             ELSE IF o.ok /\ ~isNaN(fetchedPort) /\ fetchedPort.n > 0
               THEN return(adopt(l, fetchedPort.n), "true")
               ELSE l
      caught == IF try.thrown THEN removeItem(Caught(try)) ELSE try
  IN IF caught.loadPc = "done" THEN caught ELSE probeDefault(caught)

\* a promise of a sweep: pending, or fulfilled with null or with
\* {port, sourcePort}; reply is history, the outcome its probe settled with
Pending ==
  [settled |-> FALSE, found |-> FALSE, port |-> 0, sourcePort |-> 0,
   reply |-> NetworkError]
Null(o) ==
  [settled |-> TRUE, found |-> FALSE, port |-> 0, sourcePort |-> 0, reply |-> o]
Found(port, sourcePort, o) ==
  [settled |-> TRUE, found |-> TRUE, port |-> port, sourcePort |-> sourcePort,
   reply |-> o]

RECURSIVE fetchFrom(_, _, _)
fetchFrom(l, i, path) ==
  IF i > SweepCount THEN l
  ELSE fetchFrom(fetch(l, DISCOVERY_START_PORT + i, path), i + 1, path)

\* lines 74-94: one /bridge-port probe per candidate port, in port order
portSweep(l) ==
  [fetchFrom(l, 1, "/bridge-port") EXCEPT
     !.loadPc = "sweep", !.portPromises = [i \in 1..SweepCount |-> Pending]]

\* lines 110-130: one /port probe per candidate port, in port order
legacySweep(l) ==
  [fetchFrom(l, 1, "/port") EXCEPT
     !.loadPc = "legacy", !.legacyPromises = [i \in 1..SweepCount |-> Pending]]

\* a faulty variant of defaultSettled: discovery goes on after a good answer
defaultSettled_on(l, o) ==
  LET fetchedPort == parseInt(trim(o.text))
  IN IF ~o.error /\ o.ok /\ ~isNaN(fetchedPort) /\ fetchedPort.n > 0
       THEN portSweep(setItem(adopt(l, fetchedPort.n), StringOf(fetchedPort.n)))
       ELSE portSweep(l)

\* lines 53-70: the probe of the default port has settled
defaultSettled(l, o) ==
  LET fetchedPort == parseInt(trim(o.text))
      try == IF o.error THEN Throw(l)
             ELSE IF o.ok /\ ~isNaN(fetchedPort) /\ fetchedPort.n > 0
               THEN return(setItem(adopt(l, fetchedPort.n), StringOf(fetchedPort.n)),
                           "true")
               ELSE l
      caught == IF try.thrown THEN Caught(try) ELSE try
  IN IF caught.loadPc = "done" THEN caught ELSE portSweep(caught)

\* lines 80-92 and 116-128: what the promise of one sweep probe is fulfilled with
probeSettled(sourcePort, o) ==
  LET fetchedPort == parseInt(trim(o.text))
  IN IF o.error THEN Null(o)
     ELSE IF o.ok /\ ~isNaN(fetchedPort) /\ fetchedPort.n > 0
       THEN Found(fetchedPort.n, sourcePort, o)
       ELSE Null(o)

AllSettled(results) == \A i \in 1..Len(results) : results[i].settled

\* a faulty variant of FirstFound: the last fulfilled result with a value
FirstFound_last(results) ==
  IF \E i \in 1..Len(results) : results[i].found
    THEN CHOOSE i \in 1..Len(results) :
           results[i].found /\ \A j \in (i + 1)..Len(results) : ~results[j].found
    ELSE 0

\* the first fulfilled result with a value, in the order of the array (0: none)
FirstFound(results) ==
  IF \E i \in 1..Len(results) : results[i].found
    THEN CHOOSE i \in 1..Len(results) :
           results[i].found /\ \A j \in 1..(i - 1) : ~results[j].found
    ELSE 0

\* a faulty variant of portResults: the candidate port is taken, not the port
\* the response names
portResults_source(l) ==
  LET i == FirstFound(l.portPromises)
  IN IF i # 0
       THEN return(setItem(adopt(l, l.portPromises[i].sourcePort),
                           StringOf(l.portPromises[i].sourcePort)), "true")
       ELSE legacySweep(l)

\* lines 97-106, then 110-130: the /bridge-port sweep has settled
portResults(l) ==
  LET i == FirstFound(l.portPromises)
  IN IF i # 0
       THEN return(setItem(adopt(l, l.portPromises[i].port),
                           StringOf(l.portPromises[i].port)), "true")
       ELSE legacySweep(l)

\* a faulty variant of legacyResults: the default port is persisted on failure
legacyResults_persist(l) ==
  LET i == FirstFound(l.legacyPromises)
  IN IF i # 0
       THEN return(setItem(adopt(l, l.legacyPromises[i].port),
                           StringOf(l.legacyPromises[i].port)), "true")
       ELSE return(setItem(l, StringOf(l.BRIDGE_PORT)), "false")

\* lines 132-144: the /port sweep has settled
legacyResults(l) ==
  LET i == FirstFound(l.legacyPromises)
  IN IF i # 0
       THEN return(setItem(adopt(l, l.legacyPromises[i].port),
                           StringOf(l.legacyPromises[i].port)), "true")
       ELSE return(l, "false")

\* one probe of the /bridge-port sweep settles; the function resumes (line 97)
\* when all have
portPromiseSettled(l, i, o) ==
  LET l2 == [l EXCEPT !.portPromises[i] = probeSettled(DISCOVERY_START_PORT + i, o)]
  IN IF AllSettled(l2.portPromises) THEN portResults(l2) ELSE l2

\* one probe of the /port sweep settles; the function resumes (line 132) when
\* all have
legacyPromiseSettled(l, i, o) ==
  LET l2 == [l EXCEPT !.legacyPromises[i] = probeSettled(DISCOVERY_START_PORT + i, o)]
  IN IF AllSettled(l2.legacyPromises) THEN legacyResults(l2) ELSE l2

\* lines 145-148: whatever is thrown inside the function is caught
catchAll(l) == IF l.thrown THEN return(Caught(l), "false") ELSE l

InitPort ==
  /\ InitClosure
  /\ BRIDGE_PORT = DEFAULT_PORT
  /\ historicFlagImageUrl = NoUrl
  /\ elems = [e \in ElemIds |-> FreshElement]
  /\ localStorage \in CacheTexts

\* init() calls loadBridgePort
LoadStart ==
  /\ loadPc = "start"
  /\ CommitLoad(catchAll(loadBridgePort(CurLoad)))

CachedReply ==
  /\ loadPc = "cached"
  /\ \E o \in Outcomes(probeLog[Len(probeLog)].port) :
       CommitLoad(catchAll(cachedSettled(settle(CurLoad, o), o)))

DefaultReply ==
  /\ loadPc = "default"
  /\ \E o \in Outcomes(DEFAULT_PORT) :
       CommitLoad(catchAll(defaultSettled(settle(CurLoad, o), o)))

SweepReply(i) ==
  /\ loadPc = "sweep"
  /\ ~portPromises[i].settled
  /\ \E o \in Outcomes(DISCOVERY_START_PORT + i) :
       CommitLoad(catchAll(portPromiseSettled(CurLoad, i, o)))

LegacyReply(i) ==
  /\ loadPc = "legacy"
  /\ ~legacyPromises[i].settled
  /\ \E o \in Outcomes(DISCOVERY_START_PORT + i) :
       CommitLoad(catchAll(legacyPromiseSettled(CurLoad, i, o)))

NextPort ==
  \/ LoadStart
  \/ CachedReply
  \/ DefaultReply
  \/ \E i \in 1..SweepCount : SweepReply(i)
  \/ \E i \in 1..SweepCount : LegacyReply(i)

SpecPort == InitPort /\ [][NextPort]_vars


(***************************************************************************)
(* Properties.                                                             *)
(***************************************************************************)
Marked(e) == HISTORIC_CLASS \in elems[e].classList

Ran(ops, name) == \E i \in 1..Len(ops) : ops[i].op = name

Last(q) == q[Len(q)]

IsPrefix(p, q) == Len(p) <= Len(q) /\ \A i \in 1..Len(p) : p[i] = q[i]

Logged(frames, level, message) ==
  \E i \in 1..Len(frames) : frames[i] = LogRecord(level, message)

Requests(frames) == Cardinality({i \in 1..Len(frames) : frames[i] = AssetRequest})

\* C1: while the phase of the most recent phase-change frame is neither
\* "ChampSelect" nor "FINALIZATION" (from the initial state on), no element
\* carries lu-historic-flag-active, and no task has run the apply step.
C1_NoDecorationOutsideTargetPhase ==
  ~lastPhaseInTarget => (\A e \in ElemIds : ~Marked(e)) /\ ~Ran(syncOps, "apply")

\* the phase was left with the flag shown: the element was hidden by the handler
C1_Witness ==
  /\ ~lastPhaseInTarget
  /\ historicModeActive
  /\ historicFlagImageUrl # NoUrl
  /\ Logged(sent, "debug", "Left ChampSelect phase - disabling plugin")
  /\ \E e \in ElemIds :
       /\ elems[e].attached
       /\ elems[e].style["display"] = Decl(<<"none">>, "important")

\* the open event of a socket
Opened == \E id \in SocketIds : sockets[id] = "CONNECTING" /\ sockets'[id] = "OPEN"

\* C2: the frames queued while the bridge is not ready leave in their enqueue
\* order when the next connection opens, each exactly once: the open event
\* transmits the whole queue in order (then its own log record) and empties
\* it; no other step removes, reorders or transmits a queued frame, whatever
\* failed connection attempts lie in between.
C2_QueueFlushedInOrder ==
  [][/\ Opened =>
          /\ sent' = bridgeQueue \o <<LogRecord("info", "WebSocket bridge connected")>>
          /\ bridgeQueue' = <<>>
     /\ ~Opened =>
          /\ IsPrefix(bridgeQueue, bridgeQueue')
          /\ bridgeQueue # <<>> => sent' = <<>>]_vars

\* the asset request of init and the records of a failed attempt, flushed in order
C2_Witness ==
  /\ Len(sent) = 7
  /\ sent[3] = AssetRequest
  /\ sent[5] = LogRecord("warn", "WebSocket bridge error")
  /\ sent[6] = LogRecord("info", "WebSocket bridge closed, reconnecting...")
  /\ sent[7] = LogRecord("info", "WebSocket bridge connected")
  /\ bridgeQueue = <<>>

\* the close event of the bridge socket: onclose logs into the queue
Closed ==
  /\ Len(bridgeQueue') > Len(bridgeQueue)
  /\ Last(bridgeQueue') = LogRecord("info", "WebSocket bridge closed, reconnecting...")

\* C3: every close marks the bridge not ready, drops the socket handle and
\* starts exactly one reconnect timer; and with timers that fire, a pending
\* reconnect timer always leads to a new connection attempt, after a failed
\* attempt as after a lost connection.
C3_CloseReconnects ==
  /\ [][Closed => /\ ~bridgeReady'
                  /\ bridgeSocket' = 0
                  /\ bridgeRetryTimers' = bridgeRetryTimers + 1]_vars
  /\ (bridgeRetryTimers > 0) ~> (\E id \in SocketIds : sockets[id] = "CONNECTING")

\* a reconnect attempt that follows a failed reconnect attempt
C3_Witness ==
  /\ \E id \in SocketIds : sockets[id] = "CONNECTING"
  /\ bridgeRetryTimers = 0
  /\ \E i \in 1..Len(bridgeQueue) - 2 :
       /\ bridgeQueue[i] = LogRecord("info", "WebSocket bridge closed, reconnecting...")
       /\ bridgeQueue[i + 1] = LogRecord("warn", "WebSocket bridge error")
       /\ bridgeQueue[i + 2] = LogRecord("info", "WebSocket bridge closed, reconnecting...")

\* the error event of the bridge socket: onerror logs into the queue
Errored ==
  /\ Len(bridgeQueue') > Len(bridgeQueue)
  /\ \E i \in Len(bridgeQueue) + 1..Len(bridgeQueue') :
       bridgeQueue'[i] = LogRecord("warn", "WebSocket bridge error")

\* C4: after the task in which the socket reports an error (the error event
\* and the close event that the browser fires with it), the bridge is not
\* ready, the socket handle is dropped, and exactly one reconnect timer was
\* started, which is the only one pending.
C4_ErrorReconnectsOnce ==
  [][Errored => /\ ~bridgeReady'
                /\ bridgeSocket' = 0
                /\ bridgeRetryTimers' = bridgeRetryTimers + 1
                /\ bridgeRetryTimers' = 1]_vars

\* an open connection failed
C4_Witness ==
  /\ bridgeQueue = <<LogRecord("warn", "WebSocket bridge error"),
                     LogRecord("info", "WebSocket bridge closed, reconnecting...")>>
  /\ bridgeRetryTimers = 1
  /\ bridgeSocket = 0
  /\ ~bridgeReady

\* C5: once the client is settled (connected, no timer pending, nothing
\* queued, no request the host has yet to answer) in a target phase with
\* historic mode active and the target element present, the decoration has
\* been applied.
C5_SettledIsDecorated ==
  (/\ BridgeOpen(Cur)
   /\ bridgeQueue = <<>>
   /\ bridgeRetryTimers = 0
   /\ PendingTimers(Cur) = 0
   /\ hostReq = 0
   /\ lastPhaseInTarget
   /\ historicModeActive
   /\ TargetOf(Cur) # 0)
    => \E e \in ElemIds : Marked(e)

\* C6: at most one request-local-asset frame is ever produced, none once the
\* URL is resolved, and the one of init is the one the scenario finds on the
\* outbound path.
C6_OneAssetRequest ==
  /\ reqCount <= 1
  /\ pc = "running" => reqCount = 1
  /\ Requests(bridgeQueue) + Requests(sent) <= 1
  /\ historicFlagImageUrl # NoUrl => Requests(sent) = 0

\* phase-change ChampSelect, historic-state active, element found, URL unresolved
C6_Witness ==
  /\ lastPhaseInTarget
  /\ historicModeActive
  /\ historicFlagImageUrl = NoUrl
  /\ syncOps # <<>>
  /\ Last(syncOps).op = "defer"
  /\ reqCount = 1

\* a matching local-asset-url frame was handled
AssetArrived == Logged(sent', "info", "Received historic flag image URL from Python")

\* C7: an element carries the marker class only when the asset URL is
\* resolved; and the task that handles a matching local-asset-url frame in a
\* target phase, with historic mode active and the element present, applies
\* the decoration with the received URL as background-image.
C7_DecoratedOnlyWithUrl ==
  /\ [](\A e \in ElemIds : Marked(e) => historicFlagImageUrl # NoUrl)
  /\ [][(AssetArrived /\ lastPhaseInTarget /\ historicModeActive /\ TargetOf(Cur) # 0) =>
          /\ historicFlagImageUrl' \in Urls
          /\ Ran(syncOps', "apply")
          /\ HISTORIC_CLASS \in elems'[TargetOf(Cur)].classList
          /\ elems'[TargetOf(Cur)].style["background-image"] =
               Decl(CssUrl(historicFlagImageUrl'), "important")]_vars

\* the URL arrived and was applied by the handler
C7_Witness ==
  /\ Logged(sent, "info", "Received historic flag image URL from Python")
  /\ Ran(syncOps, "apply")
  /\ \E e \in ElemIds :
       /\ Marked(e)
       /\ elems[e].style["background-image"] = Decl(CssUrl(UrlFlag), "important")

C9_RetryBound ==
  /\ \A i \in 1..Len(syncOps) : syncOps[i].op = "giveup" => syncOps[i].attempts = 6
  /\ (syncOps # <<>> /\ Last(syncOps).op \in {"giveup", "apply", "clear", "defer"})
       => retryCount = 0
  /\ ~lastPhaseInTarget => retryCount = 0

\* the 6th attempt gave up
C9_Witness ==
  /\ syncOps = <<Op("giveup", 6)>>
  /\ retryCount = 0
  /\ lastPhaseInTarget

\* C10: apply run on an element right after apply on the same element leaves
\* the class set and the style map as the first apply left them.
C10_ApplyIdempotent ==
  [][\A e \in ElemIds :
       (syncOps # <<>> /\ Last(syncOps) = Op("apply", e) /\ ElemApply(e))
         => elems'[e] = elems[e]]_vars

\* apply ran twice in a row on an element with the random flag and foreign styles
C10_Witness ==
  /\ Len(syncOps) = 2
  /\ syncOps[1] = Op("apply", 1)
  /\ syncOps[2] = Op("apply", 1)
  /\ RANDOM_CLASS \in elems[1].classList
  /\ elems[1].style["color"] = Decl(<<"red">>, "")
  /\ elems[1].style["content"] = Decl(<<"\"x\"">>, "")
  /\ Marked(1)

\* the last two element operations were apply and then clear on element e,
\* which had no random-flag class when apply found it
AppliedThenCleared(e) ==
  /\ Len(syncOps) >= 2
  /\ syncOps[Len(syncOps) - 1] = Op("apply", e)
  /\ Last(syncOps) = Op("clear", e)
  /\ RANDOM_CLASS \notin beforeApply[e].classList

\* the properties neither apply nor clear ever sets
ForeignProps ==
  StyleProps \ ({SharedProps[i] : i \in 1..Len(SharedProps)}
                 \cup {"display", "visibility", "opacity"})

\* C11 as stated: apply followed by clear on an element without the
\* random-flag class restores every inline style property of the element to
\* its value before apply.
C11_RoundTripRestores ==
  \A e \in ElemIds : AppliedThenCleared(e) => elems[e].style = beforeApply[e].style

\* C11 as amended: apply followed by clear on an element without the
\* random-flag class leaves the historic marker class absent, the thirteen
\* presentation properties unset, display none, visibility hidden and opacity
\* 0 (all important), and every other property and class as before apply.
C11_RoundTripHides ==
  \A e \in ElemIds :
    AppliedThenCleared(e) =>
      /\ elems[e].classList = beforeApply[e].classList \ {HISTORIC_CLASS}
      /\ elems[e].attached = beforeApply[e].attached
      /\ \A i \in 1..Len(SharedProps) : elems[e].style[SharedProps[i]] = Unset
      /\ elems[e].style["display"] = Decl(<<"none">>, "important")
      /\ elems[e].style["visibility"] = Decl(<<"hidden">>, "important")
      /\ elems[e].style["opacity"] = Decl(<<"0">>, "important")
      /\ \A p \in ForeignProps : elems[e].style[p] = beforeApply[e].style[p]

\* apply and clear ran on an element that had a width, a colour and a
\* display of its own
C11_Witness ==
  /\ AppliedThenCleared(1)
  /\ beforeApply[1].style["width"] = Decl(<<"10px">>, "")
  /\ beforeApply[1].style["color"] = Decl(<<"red">>, "")
  /\ beforeApply[1].style["display"] = Decl(<<"inline">>, "")
  /\ elems[1].style["width"] = Unset
  /\ elems[1].style["color"] = Decl(<<"red">>, "")

\* the step is a clear of element e
ClearStep(e) ==
  /\ Len(syncOps') = Len(syncOps) + 1
  /\ Last(syncOps') = Op("clear", e)

\* C12: when the random-flag class is on the element, clear changes nothing
\* on it but the historic marker class, which it removes, and at most the
\* background-image property, which it may remove; every other style
\* property, the random-flag class and every other element stay as they were.
C12_CoexistenceFrame ==
  [][\A e \in ElemIds :
       (ClearStep(e) /\ RANDOM_CLASS \in elems[e].classList) =>
         /\ elems'[e].classList = elems[e].classList \ {HISTORIC_CLASS}
         /\ RANDOM_CLASS \in elems'[e].classList
         /\ elems'[e].attached = elems[e].attached
         /\ \A p \in StyleProps \ {"background-image"} :
              elems'[e].style[p] = elems[e].style[p]
         /\ elems'[e].style["background-image"]
              \in {elems[e].style["background-image"], Unset}
         /\ \A f \in ElemIds \ {e} : elems'[f] = elems[f]]_vars

\* clear ran on a decorated element that carries the random-flag class: the
\* marker and the image are gone, what apply set besides is still there
C12_Witness ==
  /\ Len(syncOps) = 2
  /\ syncOps[1] = Op("apply", 1)
  /\ syncOps[2] = Op("clear", 1)
  /\ RANDOM_CLASS \in beforeApply[1].classList
  /\ RANDOM_CLASS \in elems[1].classList
  /\ ~Marked(1)
  /\ elems[1].style["background-image"] = Unset
  /\ elems[1].style["display"] = Decl(<<"block">>, "important")
  /\ elems[1].style["width"] = Decl(<<"32px">>, "important")

\* apply has run on element e and its background-image is still the one
\* apply set
DecoratedByApply(e) ==
  /\ \E i \in 1..Len(syncOps) : syncOps[i] = Op("apply", e)
  /\ elems[e].style["background-image"] = Decl(CssUrl(historicFlagImageUrl), "important")

\* C13: when the random-flag class is on an element that apply decorated,
\* clear removes the background-image apply set, whatever URL the host
\* resolved the asset to.
C13_ClearRemovesOwnImage ==
  [][\A e \in ElemIds :
       (ClearStep(e) /\ RANDOM_CLASS \in elems[e].classList /\ DecoratedByApply(e))
         => elems'[e].style["background-image"] = Unset]_vars

\* the port a reply names
PortNamed(o) == parseInt(trim(o.text))

\* a probe fails by a timeout or network error, by a response that is not
\* 2xx, or by a body that is no positive number
ProbeFailed(o) == o.error \/ ~o.ok \/ isNaN(PortNamed(o)) \/ PortNamed(o).n <= 0

\* the replies the promises of a sweep have settled with, in port order
Replies(ps) == [i \in 1..Len(ps) |-> ps[i].reply]

AllFailed(ps) == \A i \in 1..Len(ps) : ps[i].settled => ProbeFailed(ps[i].reply)

NoProbeSucceeded ==
  /\ \A i \in 1..Len(replyLog) : ProbeFailed(replyLog[i].reply)
  /\ AllFailed(portPromises)
  /\ AllFailed(legacyPromises)

\* C14: the resolver never ends with an uncaught error and never stops half
\* way; whenever no probe has succeeded the port is the default 50000 and the
\* resolver has not returned true and has stored no value, and it returns
\* false only when every probe of every stage has failed.
C14_ResolverNeverFails ==
  /\ loadResult # "rejected"
  /\ loadPc = "done" <=> loadResult \in {"true", "false"}
  /\ loadPc = "sweep" => ~AllSettled(portPromises)
  /\ loadPc = "legacy" => ~AllSettled(legacyPromises)
  /\ loadResult = "false" => NoProbeSucceeded
  /\ NoProbeSucceeded =>
       /\ BRIDGE_PORT = DEFAULT_PORT
       /\ loadResult # "true"
       /\ \A i \in 1..Len(storageLog) : storageLog[i].op # "setItem"

\* every stage failed, each in another way: the cached probe timed out, the
\* default port answered with a non-positive body, the sweeps met a non-2xx
\* response and a non-numeric body
C14_Witness ==
  /\ loadPc = "done"
  /\ loadResult = "false"
  /\ BRIDGE_PORT = DEFAULT_PORT
  /\ localStorage = NoItem
  /\ Len(replyLog) = 2
  /\ Len(legacyPromises) = SweepCount
  /\ replyLog[1] = [stage |-> "cached", reply |-> NetworkError]
  /\ replyLog[2] = [stage |-> "default", reply |-> Response(TRUE, <<"0">>)]
  /\ ~portPromises[1].reply.error /\ ~portPromises[1].reply.ok
  /\ legacyPromises[1].reply = Response(TRUE, <<"a", "b", "c">>)

\* C15: when the probe of the cached port fails, by a timeout or network
\* error, by a non-2xx response or by a body that is no number, the cached
\* value has been removed from storage when discovery goes on: removeItem is
\* the first call made on the storage, in the step that handles the reply.
C15_FailedCacheDiscarded ==
  (replyLog # <<>> /\ replyLog[1].stage = "cached" /\ ProbeFailed(replyLog[1].reply))
    => (storageLog # <<>> /\ storageLog[1].op = "removeItem")

\* the probes of discovery, in the order of the source: the default port, the
\* /bridge-port sweep and the /port sweep, both by ascending port
DiscoveryOrder ==
  <<[port |-> DEFAULT_PORT, path |-> "/bridge-port"]>>
    \o [i \in 1..SweepCount |-> [port |-> DISCOVERY_START_PORT + i, path |-> "/bridge-port"]]
    \o [i \in 1..SweepCount |-> [port |-> DISCOVERY_START_PORT + i, path |-> "/port"]]

\* the probe of the cached port has been issued
CachedTried == loadPc = "cached" \/ (replyLog # <<>> /\ replyLog[1].stage = "cached")

\* the stages whose probes have been issued
StagesTried ==
  (IF CachedTried THEN 1 ELSE 0)
    + (IF loadPc = "default" \/ \E i \in 1..Len(replyLog) : replyLog[i].stage = "default"
         THEN 1 ELSE 0)
    + Len(portPromises) + Len(legacyPromises)

\* the port named by the first reply that succeeded, in the order cached
\* port, default port, /bridge-port sweep by port, /port sweep by port
RECURSIVE FirstSuccess(_)
FirstSuccess(replies) ==
  IF replies = <<>> THEN 0
  ELSE IF ~ProbeFailed(Head(replies)) THEN PortNamed(Head(replies)).n
  ELSE FirstSuccess(Tail(replies))

\* C16: the probes are issued in the order cached port, default port,
\* /bridge-port sweep, /port sweep; a stage is consulted only when every probe
\* of every earlier stage has failed; a cached port whose probe timed out is
\* gone from storage while nothing has succeeded; and the port adopted on
\* success is the one named by the first successful reply in that order.
C16_StagesInOrder ==
  /\ CachedTried => (probeLog # <<>> /\ probeLog[1].path = "/bridge-port")
  /\ Len(probeLog) = StagesTried
  /\ IsPrefix(IF CachedTried THEN Tail(probeLog) ELSE probeLog, DiscoveryOrder)
  /\ \A i \in 1..(Len(replyLog) - 1) : ProbeFailed(replyLog[i].reply)
  /\ loadPc = "default" => \A i \in 1..Len(replyLog) : ProbeFailed(replyLog[i].reply)
  /\ portPromises # <<>> => \A i \in 1..Len(replyLog) : ProbeFailed(replyLog[i].reply)
  /\ legacyPromises # <<>> => (AllSettled(portPromises) /\ AllFailed(portPromises))
  /\ (CachedTried /\ replyLog # <<>> /\ replyLog[1].reply.error /\ loadResult # "true")
       => localStorage = NoItem
  /\ loadResult = "true" =>
       BRIDGE_PORT = FirstSuccess([i \in 1..Len(replyLog) |-> replyLog[i].reply]
                                    \o Replies(portPromises) \o Replies(legacyPromises))

\* the scenario: the cached port 50002 timed out and was discarded, the
\* default port failed, and of the sweep the first port failed and the second
\* answered
C16_Witness ==
  /\ loadResult = "true"
  /\ Len(replyLog) = 2
  /\ Len(portPromises) = SweepCount
  /\ probeLog[1] = [port |-> DISCOVERY_START_PORT + 2, path |-> "/bridge-port"]
  /\ replyLog[1] = [stage |-> "cached", reply |-> NetworkError]
  /\ ProbeFailed(portPromises[1].reply)
  /\ portPromises[2].reply = Response(TRUE, StringOf(DISCOVERY_START_PORT + 2))
  /\ legacyPromises = <<>>
  /\ BRIDGE_PORT = DISCOVERY_START_PORT + 2
  /\ localStorage = StringOf(DISCOVERY_START_PORT + 2)

ParseError == LogRecord("error", "Failed to parse bridge message")

\* the step logs a parse failure
ParseFailed ==
  \/ Logged(sent', "error", "Failed to parse bridge message")
  \/ Len(bridgeQueue') > Len(bridgeQueue) /\ Last(bridgeQueue') = ParseError

\* C17: the task that handles a frame that does not parse only logs the
\* failure (transmitted, or queued while the bridge is not ready): every
\* socket, the socket handle, the ready flag, the reconnect timers, the phase,
\* the active flag, the asset URL, the pending marker, the element reference,
\* the retry counter, the timers, the elements and the label are as before,
\* so the next frame is handled in the state the frame before it left.
C17_MalformedFrameDropped ==
  [][ParseFailed =>
       /\ UNCHANGED <<pc, sockets, bridgeSocket, bridgeReady, bridgeRetryTimers,
                      socketPort, isInChampSelect, historicModeActive,
                      historicFlagImageUrl, pendingHistoricFlagRequest,
                      currentRewardsElement, retryCount,
                      timers, elems, selectedItem, popup, hostReq, reqCount,
                      notFoundRun, lastPhaseInTarget, hsExpect>>
       /\ \/ sent' = <<ParseError>> /\ bridgeQueue' = bridgeQueue
          \/ sent' = <<>> /\ bridgeQueue' = Append(bridgeQueue, ParseError)
       /\ syncOps' = <<>>]_vars

\* a frame that does not parse has just been handled on a ready bridge, in a
\* target phase with historic mode active and an element decorated
C17_Witness ==
  /\ sent = <<ParseError>>
  /\ bridgeReady
  /\ bridgeSocket # 0
  /\ sockets[bridgeSocket] = "OPEN"
  /\ isInChampSelect
  /\ historicModeActive
  /\ \E e \in ElemIds : Marked(e)

\* the step is a call of setupBridgeSocket
ConnectStep == syncOps' = <<Op("connect", 0)>>

\* C18: a call of setupBridgeSocket while the socket of the handle is open
\* changes no socket, not the handle, the ready flag, the queue or a timer and
\* transmits nothing; a call in any other state creates one new socket, in
\* state CONNECTING and addressed to the adopted port, makes it the handle,
\* and changes nothing else of the bridge.
C18_ConnectNoOpWhenOpen ==
  [][ConnectStep =>
       IF bridgeSocket # 0 /\ sockets[bridgeSocket] = "OPEN"
         THEN /\ UNCHANGED <<sockets, socketPort, bridgeSocket, bridgeReady,
                             bridgeQueue, bridgeRetryTimers, timers>>
              /\ sent' = <<>>
         ELSE /\ \E id \in SocketIds :
                   /\ sockets[id] = "FREE"
                   /\ sockets' = [sockets EXCEPT ![id] = "CONNECTING"]
                   /\ socketPort' = [socketPort EXCEPT ![id] = BRIDGE_PORT]
                   /\ bridgeSocket' = id
              /\ UNCHANGED <<bridgeReady, bridgeQueue, bridgeRetryTimers, timers>>
              /\ sent' = <<>>]_vars

\* setupBridgeSocket has just been called with the connection to the
\* discovered port open: there is still the one socket
C18_Witness ==
  /\ syncOps = <<Op("connect", 0)>>
  /\ bridgeSocket # 0
  /\ sockets[bridgeSocket] = "OPEN"
  /\ socketPort[bridgeSocket] = DISCOVERY_START_PORT + 2
  /\ bridgeReady
  /\ \A id \in SocketIds \ {bridgeSocket} : sockets[id] = "FREE"

\* the step is the phase-change handler leaving the target phase
LeavesTargetPhase == isInChampSelect /\ ~isInChampSelect'

\* C19: the handler of a phase-change frame that takes the phase from a
\* target phase to a non-target phase, whatever the active flag and the
\* pending timers, leaves the element the reference named without the
\* historic marker class and without the background image apply set, the
\* reference none and the retry counter 0.
C19_PhaseExitClears ==
  [][LeavesTargetPhase =>
       /\ currentRewardsElement' = 0
       /\ retryCount' = 0
       /\ \A e \in ElemIds :
            e = currentRewardsElement =>
              /\ HISTORIC_CLASS \notin elems'[e].classList
              /\ elems'[e].style["background-image"] = Unset]_vars

\* the step runs the callback of a pending 100 ms or 1000 ms timer, which is
\* one Synchronize attempt (only that callback takes such a timer away)
SyncTimerStep == timers'["sync"] < timers["sync"]

\* C20: a Synchronize attempt, whether it finds the rewards element or not,
\* leaves the skin-name label as it was: absent, or present with the text it
\* had.  (Stated for the attempts the 100 ms and 1000 ms timers run; the label
\* is created, changed and removed by other tasks only.)
C20_LabelIndependentOfDiscovery ==
  [][SyncTimerStep => popup' = popup]_vars

\* the step handles a historic-state frame (only handleHistoricStateUpdate
\* logs this record)
HistoricStateStep ==
  \/ Logged(sent', "info", "Received historic state update")
  \/ /\ Len(bridgeQueue') > Len(bridgeQueue)
     /\ Logged(SubSeq(bridgeQueue', Len(bridgeQueue) + 1, Len(bridgeQueue')),
               "info", "Received historic state update")

\* the label a historic-state payload asks for
LabelOf(payload) ==
  IF payload.historicSkinName \notin {Absent, "", "None"}
    THEN payload.historicSkinName
    ELSE NoPopup

\* C21: when the task of a historic-state frame ends, the label shows the
\* name of the frame if the name is non-empty and not "None", and there is no
\* label otherwise.
C21_LabelFollowsName ==
  [][HistoricStateStep =>
       \A id \in SocketIds, f \in ViewHistoricStateFrames :
         ViewReceive(id, f) => popup' = LabelOf(f)]_vars

\* the step is the task of a phase-change frame; the frame names a target
\* phase (target = 1) or another phase (target = 0)
PhaseChangeStep(target) ==
  syncOps' # <<>> /\ syncOps'[1] = Op("phase-change", target)

\* C22: isInChampSelect is TRUE exactly when the most recent phase-change
\* frame named "ChampSelect" or "FINALIZATION"; only the task of a
\* phase-change frame changes it; and a phase-change frame that stays on the
\* same side (target to target, non-target to non-target) changes no element,
\* not the element reference, the retry counter, the active flag or the label,
\* starts no timer, runs no Synchronize and logs nothing.
C22_PhaseMembership ==
  [][/\ isInChampSelect' = lastPhaseInTarget'
     /\ isInChampSelect' # isInChampSelect =>
          PhaseChangeStep(IF isInChampSelect' THEN 1 ELSE 0)
     /\ PhaseChangeStep(IF isInChampSelect THEN 1 ELSE 0) =>
          /\ UNCHANGED <<isInChampSelect, elems, currentRewardsElement, retryCount,
                         timers, historicModeActive, popup, historicFlagImageUrl,
                         pendingHistoricFlagRequest, bridgeQueue>>
          /\ sent' = <<>>
          /\ Len(syncOps') = 1]_vars

\* a phase-change frame that names a target phase has been handled in a
\* target phase, with the flag shown on the referenced element, historic mode
\* active and a timer pending: nothing was logged and nothing has changed
C22_Witness ==
  /\ syncOps = <<Op("phase-change", 1)>>
  /\ sent = <<>>
  /\ isInChampSelect
  /\ historicModeActive
  /\ currentRewardsElement # 0
  /\ Marked(currentRewardsElement)
  /\ timers["sync"] > 0

\* the step is the task of a historic-state frame whose active member is the
\* boolean true (active = 1) or anything else (active = 0)
HistoricStateTask(active) ==
  syncOps' # <<>> /\ syncOps'[1] = Op("historic-state", active)

\* C23: the task of a historic-state frame whose active member is the boolean
\* true sets the active flag and starts exactly two timers that call
\* updateHistoricFlag; the task of a frame with any other active member clears
\* the flag and starts exactly one; both whether or not the flag changes.
C23_HistoricStateSchedules ==
  [][/\ HistoricStateTask(1) =>
          /\ historicModeActive'
          /\ timers'["sync"] = timers["sync"] + 2
     /\ HistoricStateTask(0) =>
          /\ ~historicModeActive'
          /\ timers'["sync"] = timers["sync"] + 1]_vars

\* two frames with active true have been handled in a row: four timers are
\* pending, two of them started by the frame that repeated the value
C23_Witness ==
  /\ syncOps # <<>>
  /\ syncOps[1] = Op("historic-state", 1)
  /\ historicModeActive
  /\ timers["sync"] = 4
  /\ isInChampSelect

\* the step is the task of a local-asset-url frame that names the tracked
\* asset with a non-empty URL (matching = 1) or not (matching = 0)
LocalAssetUrlTask(matching) ==
  syncOps' # <<>> /\ syncOps'[1] = Op("local-asset-url", matching)

\* C24: the task of a local-asset-url frame for "historic_flag.png" with a
\* non-empty URL stores the URL, clears the pending marker, and runs
\* updateHistoricFlag if and only if the phase is a target phase and historic
\* mode is active; the task of a frame with another asset path or an empty URL
\* changes nothing, logs nothing and runs nothing.
C24_AssetUrlHandled ==
  [][/\ LocalAssetUrlTask(1) =>
          /\ historicFlagImageUrl' = UrlFlag
          /\ pendingHistoricFlagRequest' = {}
          /\ Len(syncOps') > 1 <=> (isInChampSelect /\ historicModeActive)
          /\ UNCHANGED <<isInChampSelect, historicModeActive>>
     /\ LocalAssetUrlTask(0) =>
          /\ UNCHANGED <<historicFlagImageUrl, pendingHistoricFlagRequest,
                         isInChampSelect, historicModeActive, elems,
                         currentRewardsElement, retryCount, timers, popup,
                         bridgeQueue, reqCount>>
          /\ sent' = <<>>
          /\ Len(syncOps') = 1]_vars

\* the URL has arrived in a target phase with historic mode active and the
\* rewards element in the document: the task stored it and applied the flag
C24_Witness ==
  /\ syncOps = <<Op("local-asset-url", 1), Op("apply", 0)>>
  /\ historicFlagImageUrl = UrlFlag
  /\ pendingHistoricFlagRequest = {}
  /\ currentRewardsElement # 0
  /\ Marked(currentRewardsElement)

\* the step logs the record, transmitted or queued
LoggedInStep(level, message) ==
  \/ Logged(sent', level, message)
  \/ /\ Len(bridgeQueue') > Len(bridgeQueue)
     /\ Logged(SubSeq(bridgeQueue', Len(bridgeQueue) + 1, Len(bridgeQueue')),
               level, message)

\* C25: a resolved asset URL stays resolved; the pending marker is never set
\* while the URL is resolved; and the marker is cleared only by the task of a
\* matching local-asset-url frame, so not by a close, an error or a reconnect.
C25_AssetCache ==
  [][/\ historicFlagImageUrl # NoUrl => historicFlagImageUrl' # NoUrl
     /\ historicFlagImageUrl' # NoUrl => pendingHistoricFlagRequest' = {}
     /\ (pendingHistoricFlagRequest # {} /\ pendingHistoricFlagRequest' = {}) =>
          /\ LoggedInStep("info", "Received historic flag image URL from Python")
          /\ historicFlagImageUrl' # NoUrl]_vars

\* the connection has closed with the asset request outstanding: the marker
\* is still set, the URL unresolved
C25_Witness ==
  /\ bridgeQueue # <<>>
  /\ Last(bridgeQueue) = LogRecord("info", "WebSocket bridge closed, reconnecting...")
  /\ pendingHistoricFlagRequest = {HISTORIC_FLAG_ASSET_PATH}
  /\ historicFlagImageUrl = NoUrl
  /\ isInChampSelect
  /\ historicModeActive

\* the step is the task of a phase-change frame that enters a target phase
EntersTargetPhase == ~isInChampSelect /\ isInChampSelect'

\* C26: the task of a phase-change frame that enters a target phase starts
\* one timer that calls updateHistoricFlag when historic mode is active
\* (whenever the historic-state frame arrived) and none when it is not; and a
\* timer of that kind that fires in a target phase with historic mode active,
\* the URL resolved and a rewards element in the document leaves the flag
\* applied on the element the search resolves, which becomes the reference.
C26_EntrySchedulesSync ==
  [][/\ EntersTargetPhase =>
          /\ timers'["sync"] = timers["sync"] + (IF historicModeActive THEN 1 ELSE 0)
          /\ timers'["retry"] = timers["retry"]
          /\ Len(syncOps') = 1
          /\ UNCHANGED <<historicModeActive, elems, currentRewardsElement>>
     /\ (/\ SyncTimerStep
         /\ isInChampSelect
         /\ historicModeActive
         /\ historicFlagImageUrl # NoUrl
         /\ TargetOf(Cur) # 0) =>
          /\ currentRewardsElement' = TargetOf(Cur)
          /\ HISTORIC_CLASS \in elems'[TargetOf(Cur)].classList
          /\ elems'[TargetOf(Cur)].style["background-image"]
               = Decl(CssUrl(historicFlagImageUrl), "important")
          /\ syncOps' = <<Op("apply", 0)>>]_vars

\* historic mode was activated outside the target phase and its timers have
\* run; the phase has just been entered with the rewards element in the
\* document and the URL resolved: the one timer of the entry is pending and
\* the flag is not yet shown
C26_Witness ==
  /\ syncOps = <<Op("phase-change", 1)>>
  /\ Logged(sent, "debug", "Entered ChampSelect phase - enabling plugin")
  /\ historicModeActive
  /\ historicFlagImageUrl # NoUrl
  /\ TargetOf(Cur) # 0
  /\ ~Marked(TargetOf(Cur))
  /\ timers["sync"] = 1
  /\ timers["retry"] = 0

\* the step runs the callback of a pending 500 ms retry timer outside the
\* target phase (in the phase the callback may start the next one)
RetryTimerStep == timers'["retry"] < timers["retry"]

\* C27: outside the target phase the callback of a 100 ms or 1000 ms timer
\* (updateHistoricFlag) looks up no element, logs nothing, sends nothing,
\* starts no timer and changes no element, not the reference, the marker, the
\* URL, the label or the retry counter; the callback of a retry timer does the
\* same but for leaving the retry counter at 0.
C27_NoOpOutsideTargetPhase ==
  [][/\ (SyncTimerStep /\ ~isInChampSelect) =>
          /\ timers' = [timers EXCEPT !["sync"] = @ - 1]
          /\ syncOps' = <<Op("skip", 0)>>
          /\ sent' = <<>>
          /\ UNCHANGED <<elems, currentRewardsElement, pendingHistoricFlagRequest,
                         historicFlagImageUrl, popup, retryCount, reqCount,
                         historicModeActive, isInChampSelect, bridgeQueue>>
     /\ (RetryTimerStep /\ ~isInChampSelect) =>
          /\ timers' = [timers EXCEPT !["retry"] = @ - 1]
          /\ retryCount' = 0
          /\ syncOps' = <<>>
          /\ sent' = <<>>
          /\ UNCHANGED <<elems, currentRewardsElement, pendingHistoricFlagRequest,
                         historicFlagImageUrl, popup, reqCount,
                         historicModeActive, isInChampSelect, bridgeQueue>>]_vars

\* a timer of a historic-state frame has fired outside the target phase with
\* historic mode active, the URL resolved and a rewards element in the
\* document: nothing was looked up or decorated
C27_Witness ==
  /\ syncOps = <<Op("skip", 0)>>
  /\ ~isInChampSelect
  /\ historicModeActive
  /\ historicFlagImageUrl # NoUrl
  /\ TargetOf(Cur) # 0
  /\ currentRewardsElement = 0
  /\ \A e \in ElemIds : ~Marked(e)

SkinChanged == LogRecord("debug", "Selected skin changed - hiding flag on previous element")

\* the record comes before the other one in the frames
LoggedBefore(frames, first, second) ==
  \E i, j \in 1..Len(frames) : i < j /\ frames[i] = first /\ frames[j] = second

\* the step replaces the referenced element by another one
ReferenceMoves ==
  /\ currentRewardsElement # 0
  /\ currentRewardsElement' # 0
  /\ currentRewardsElement' # currentRewardsElement

\* C28: an element that carries the historic marker class is the referenced
\* element, so at most one element carries it; and a Synchronize that
\* resolves another element than the referenced one runs the clear on the
\* element referenced before, which loses the marker class, before it
\* references and decorates the new one.
C28_OneDecoratedElement ==
  [][/\ \A e \in ElemIds :
          HISTORIC_CLASS \in elems'[e].classList => e = currentRewardsElement'
     /\ ReferenceMoves =>
          /\ HISTORIC_CLASS \notin elems'[currentRewardsElement].classList
          /\ LoggedBefore(sent', SkinChanged, LogRecord("debug", "Found rewards element"))
          /\ ~LoggedBefore(sent', LogRecord("debug", "Found rewards element"), SkinChanged)]_vars

\* the selection has moved from a decorated element to another one: the
\* flag is shown on the new element and hidden on the old one, which is still
\* in the document
C28_Witness ==
  /\ Logged(sent, "debug", "Selected skin changed - hiding flag on previous element")
  /\ currentRewardsElement # 0
  /\ Marked(currentRewardsElement)
  /\ \E e \in ElemIds \ {currentRewardsElement} :
       /\ elems[e].attached
       /\ ~Marked(e)
       /\ elems[e].style["display"] = Decl(<<"none">>, "important")

\* C29: in every reachable state the retry counter is at least 0 and at most 5,
\* whatever the order in which the timers of historic-state frames, the timer
\* of a phase entry, the arrival of the URL, DOM mutations and retry timers run
\* updateHistoricFlag.
C29_RetryCounterRange == retryCount \in 0..MAX_RETRIES

\* the counter is at its maximum while a retry timer and a timer of a
\* historic-state frame are both pending
C29_Witness ==
  /\ retryCount = MAX_RETRIES
  /\ timers["retry"] > 1
  /\ timers["sync"] > 0
  /\ isInChampSelect

\* the presentation properties apply sets (lines 537-548)
PresentationProps ==
  {"background-image", "background-repeat", "background-size", "height", "width",
   "position", "right", "top", "pointer-events", "cursor", "-webkit-user-select",
   "list-style-type", "content"}

\* C30: a clear of an element that does not carry the random-flag class
\* leaves the element without the historic marker class, with none of the
\* thirteen presentation properties set, and with display none, visibility
\* hidden and opacity 0 (all important); a clear that follows a clear of the
\* same element changes nothing.
C30_ClearHides ==
  [][\A e \in ElemIds :
       (ClearStep(e) /\ RANDOM_CLASS \notin elems[e].classList) =>
         /\ HISTORIC_CLASS \notin elems'[e].classList
         /\ \A p \in PresentationProps : elems'[e].style[p] = Unset
         /\ elems'[e].style["display"] = Decl(<<"none">>, "important")
         /\ elems'[e].style["visibility"] = Decl(<<"hidden">>, "important")
         /\ elems'[e].style["opacity"] = Decl(<<"0">>, "important")
         /\ (syncOps # <<>> /\ Last(syncOps) = Op("clear", e)) => elems'[e] = elems[e]]_vars

\* apply, clear and clear again have run on an element without the
\* random-flag class that had a width and a colour of its own
C30_Witness ==
  /\ syncOps = <<Op("apply", 1), Op("clear", 1), Op("clear", 1)>>
  /\ RANDOM_CLASS \notin elems[1].classList
  /\ beforeApply[1].style["width"] = Decl(<<"10px">>, "")
  /\ elems[1].style["width"] = Unset
  /\ elems[1].style["color"] = Decl(<<"red">>, "")
  /\ elems[1].style["opacity"] = Decl(<<"0">>, "important")

\* the step is a task in which the client UI inserts or removes a rewards
\* element (no handler of the plugin changes what is in the document)
DomMutationStep == \E e \in ElemIds : elems'[e].attached # elems[e].attached

\* the step is a task in which the client UI inserts a rewards element
DomInsertStep == \E e \in ElemIds : ~elems[e].attached /\ elems'[e].attached

\* C31: the task of a DOM mutation runs updateHistoricFlag if and only if the
\* phase is a target phase and historic mode is active; and when a rewards
\* element is inserted in a target phase with historic mode active and the URL
\* resolved, also after the retries were used up and no timer is pending, the
\* same task leaves the flag applied on the element it resolves.
C31_MutationSynchronizes ==
  [][/\ DomMutationStep =>
          /\ syncOps' # <<>> <=> (isInChampSelect /\ historicModeActive)
          /\ UNCHANGED <<isInChampSelect, historicModeActive, historicFlagImageUrl>>
     /\ (/\ DomInsertStep
         /\ isInChampSelect
         /\ historicModeActive
         /\ historicFlagImageUrl # NoUrl) =>
          /\ currentRewardsElement' # 0
          /\ elems'[currentRewardsElement'].attached
          /\ HISTORIC_CLASS \in elems'[currentRewardsElement'].classList
          /\ elems'[currentRewardsElement'].style["background-image"]
               = Decl(CssUrl(historicFlagImageUrl), "important")
          /\ syncOps' = <<Op("apply", 0)>>]_vars

\* the rewards element was inserted after the last frame, with no timer
\* pending and the retry counter back at 0: the flag is shown on it
C31_Witness ==
  /\ syncOps = <<Op("apply", 0)>>
  /\ hsExpect = "none"
  /\ timers["sync"] = 0
  /\ timers["retry"] = 0
  /\ retryCount = 0
  /\ isInChampSelect
  /\ historicModeActive
  /\ currentRewardsElement # 0
  /\ Marked(currentRewardsElement)
  /\ elems[currentRewardsElement].attached


\* the resolver returned true on a reply of discovery (the default-port
\* probe or a sweep), not on the reply of the cached port
AdoptedInDiscovery ==
  /\ loadResult = "true"
  /\ \E i \in 1..Len(replyLog) : replyLog[i].stage = "default"

\* the reply the resolver returned true on: the reply of the default port if
\* it succeeded, otherwise that of the first fulfilled value of the
\* /bridge-port sweep, otherwise that of the /port sweep
AdoptedReply ==
  IF ~ProbeFailed(Last(replyLog).reply) THEN Last(replyLog).reply
  ELSE IF FirstFound(portPromises) # 0
    THEN portPromises[FirstFound(portPromises)].reply
  ELSE legacyPromises[FirstFound(legacyPromises)].reply

\* C32: when the resolver has returned true on the default-port probe, the
\* /bridge-port sweep or the /port sweep, the port it adopted is the integer
\* parsed from the body of the successful response, and the last call on the
\* storage wrote exactly that port.
C32_AdoptedPortPersisted ==
  AdoptedInDiscovery =>
    /\ BRIDGE_PORT = PortNamed(AdoptedReply).n
    /\ localStorage = StringOf(BRIDGE_PORT)
    /\ storageLog # <<>>
    /\ Last(storageLog) = [op |-> "setItem", text |-> StringOf(BRIDGE_PORT)]

\* the /port sweep was answered on candidate 50001 by a host that names port
\* 50010: 50010 is adopted and stored, not 50001
C32_Witness ==
  /\ AdoptedInDiscovery
  /\ legacyPromises # <<>>
  /\ legacyPromises[1].found
  /\ legacyPromises[1].sourcePort = DISCOVERY_START_PORT + 1
  /\ BRIDGE_PORT = DISCOVERY_END_PORT
  /\ localStorage = StringOf(DISCOVERY_END_PORT)


\* the candidate ports of the configured range that the sweeps of the model
\* cover, the first port of the range included
CandidatePorts == DISCOVERY_START_PORT..(DISCOVERY_START_PORT + SweepCount)

\* a probe of the port on the path has been issued
Probed(port, path) ==
  \E i \in 1..Len(probeLog) : probeLog[i] = [port |-> port, path |-> path]

\* C33: the resolver returns false, leaving the default port unpersisted,
\* only if every candidate port of the range, from 50000 on, was probed on
\* the /bridge-port path and on the /port path and every probe failed.
C33_FallbackAfterBothSweeps ==
  loadResult = "false" =>
    /\ NoProbeSucceeded
    /\ \A port \in CandidatePorts :
         Probed(port, "/bridge-port") /\ Probed(port, "/port")


\* the lowest candidate of a settled sweep whose probe succeeded
LowestSucceeding(ps) ==
  CHOOSE i \in 1..Len(ps) :
    ~ProbeFailed(ps[i].reply) /\ \A j \in 1..(i - 1) : ProbeFailed(ps[j].reply)

\* the sweep has settled and at least one of its probes succeeded
SweepSucceeded(ps) == ps # <<>> /\ AllSettled(ps) /\ ~AllFailed(ps)

\* the port adopted and persisted is the one named by the reply of the
\* lowest succeeding candidate of the sweep
AdoptedFromLowest(ps) ==
  /\ loadResult = "true"
  /\ BRIDGE_PORT = PortNamed(ps[LowestSucceeding(ps)].reply).n
  /\ localStorage = StringOf(BRIDGE_PORT)

LiveSockets == {id \in SocketIds : sockets[id] \in {"CONNECTING", "OPEN"}}

\* C34: once init has started the bridge, the live sockets and the pending
\* reconnect timers are at most one together, so a reconnect timer fires only
\* when no socket is connecting or open; every socket that exists is the one
\* the handle refers to, so a close event clears the handle and the ready
\* flag of its own socket only; and the ready flag is set only with a handle.
C34_OneSocketOrTimer ==
  pc = "running" =>
    /\ Cardinality(LiveSockets) + bridgeRetryTimers <= 1
    /\ \A id \in SocketIds : sockets[id] # "FREE" => bridgeSocket = id
    /\ bridgeReady => (bridgeSocket # 0 /\ sockets[bridgeSocket] \in {"OPEN", "CLOSING"})

\* a connection was closed and its reconnect timer has fired: the new socket
\* is connecting, it is the only one, and no timer is pending
C34_Witness ==
  /\ pc = "running"
  /\ Logged(bridgeQueue, "info", "WebSocket bridge closed, reconnecting...")
  /\ bridgeSocket # 0
  /\ sockets[bridgeSocket] = "CONNECTING"
  /\ bridgeRetryTimers = 0
  /\ ~bridgeReady


\* C35: after every task, a ready bridge with an OPEN socket has an empty
\* queue; a task that transmits frames transmits the frames that were waiting
\* first, in their order, and leaves the queue empty, so no frame overtakes an
\* older one; and the "connected" record of the open handler is transmitted
\* last in its task, after every frame that was queued before it.
C35_NoOvertaking ==
  [][/\ (bridgeReady' /\ bridgeSocket' # 0 /\ sockets'[bridgeSocket'] = "OPEN")
          => bridgeQueue' = <<>>
     /\ sent' # <<>> => (bridgeQueue' = <<>> /\ IsPrefix(bridgeQueue, sent'))
     /\ Opened =>
          /\ Len(sent') = Len(bridgeQueue) + 1
          /\ Last(sent') = LogRecord("info", "WebSocket bridge connected")]_vars

\* a connection opened with frames waiting: they left first, the record of
\* the open handler after them, and the queue is empty on the ready bridge
C35_Witness ==
  /\ bridgeReady
  /\ bridgeSocket # 0
  /\ sockets[bridgeSocket] = "OPEN"
  /\ bridgeQueue = <<>>
  /\ Len(sent) >= 3
  /\ sent[1] # LogRecord("info", "WebSocket bridge connected")
  /\ Last(sent) = LogRecord("info", "WebSocket bridge connected")


\* the step is a bridge event after init: a socket opens, starts closing,
\* closes or fails, or a reconnect timer fires
BridgeEventStep ==
  /\ pc = "running"
  /\ (sockets' # sockets \/ bridgeRetryTimers' # bridgeRetryTimers)

\* C37: an open, close or error event of the socket and the firing of a
\* reconnect timer leave the view state as it was: the phase, the active
\* flag, the asset URL, the pending marker, the element reference, the retry
\* counter, the classes and styles of every element, the label and the view
\* timers.
C37_BridgeEventsKeepView ==
  [][BridgeEventStep =>
       UNCHANGED <<isInChampSelect, historicModeActive, historicFlagImageUrl,
                   pendingHistoricFlagRequest, currentRewardsElement, retryCount,
                   elems, selectedItem, popup, timers>>]_vars

\* the flag is shown while the connection is lost and the reconnect timer is
\* pending
C37_Witness ==
  /\ pc = "running"
  /\ ~bridgeReady
  /\ bridgeSocket = 0
  /\ bridgeRetryTimers = 1
  /\ isInChampSelect
  /\ historicModeActive
  /\ currentRewardsElement # 0
  /\ Marked(currentRewardsElement)
  /\ elems[currentRewardsElement].attached


\* the last task handled a frame
FrameTask ==
  /\ syncOps # <<>>
  /\ syncOps[1].op \in {"phase-change", "historic-state", "local-asset-url"}

\* a 100 ms or 1000 ms timer fires: timers of this kind are started by frames only
SyncFires == timers'["sync"] < timers["sync"]

\* a 500 ms retry timer fires: a task that is not a frame and not a 100 ms or
\* 1000 ms timer, while a retry timer is pending
RetryFires ==
  /\ timers["retry"] > 0
  /\ timers'["sync"] = timers["sync"]
  /\ ~FrameTask'

\* setTimeout callbacks that are due run: a timer does not stay pending for ever
TimersFire ==
  /\ []<>(timers["sync"] = 0) \/ []<><<SyncFires>>_vars
  /\ []<>(timers["retry"] = 0) \/ []<><<RetryFires>>_vars

\* C36: while the rewards element stays out of the document, if from some
\* point on no frame arrives, then from some point on no retry timer is
\* pending, whatever chains were started and however their timers interleave.
C36_RetryChainsEnd ==
  (TimersFire /\ <>[](~FrameTask)) => <>[](timers["retry"] = 0)

\* one chain has just given up and reset the counter while the timers of
\* other chains are still pending
C36_Witness ==
  /\ Ran(syncOps, "giveup")
  /\ retryCount = 0
  /\ timers["retry"] >= 2
  /\ isInChampSelect


\* the timers that are pending for a label
PendingFor(ts, e) ==
  {id \in 1..Len(ts) : ts[id].el = e /\ ts[id].state = "pending"}

\* the step in which the timer fires
Fires(id) == labelTimers[id].state = "pending" /\ labelTimers'[id].state = "fired"

\* C39: a label in the document has at most one pending expiry timer; the
\* timer of a label touches no other label, so the timer of a label that was
\* removed (by a sentinel name, by the x or by expiry) removes nothing,
\* whatever label was created since; and a timer removes its label only when
\* a full expiry period has passed since the last showSkinName that showed it.
C39_LabelTimers ==
  [][/\ \A e \in 1..Len(labels') :
          labels'[e].attached => Cardinality(PendingFor(labelTimers', e)) <= 1
     /\ \A id \in 1..Len(labelTimers) :
          Fires(id) =>
            LET el == labelTimers[id].el
            IN /\ \A e \in 1..Len(labels) : e # el => labels'[e] = labels[e]
               /\ ~labels[el].attached => (labels' = labels /\ popup' = popup)
               /\ labels[el].attached =>
                    (labels[el].age = ExpiryTicks /\ popup' = NoPopup)]_vars

\* the first label was removed before its period was over, and its timer
\* fired while the label created after it was in the document: that label is
\* still there, with its own timer pending
C39_Witness ==
  \E id \in 1..Len(labelTimers) :
    LET el == labelTimers[id].el
        over == labelTimers[id].over
    IN /\ labelTimers[id].state = "fired"
       /\ over # 0
       /\ over # el
       /\ labels[el].age < ExpiryTicks
       /\ labels[over].attached
       /\ popup = labels[over].text
       /\ Cardinality(PendingFor(labelTimers, over)) = 1

====
